---- MODULE Spec2Model ----
(***************************************************************************)
(* The constraint and objective model that optimizeOneWeek                 *)
(* (Building_Optimization_Problem.py) assembles with pyomo, as a state     *)
(* machine over assignments.                                               *)
(*                                                                         *)
(* A pyomo model is a set of indexed variables and a set of constraint     *)
(* rules rule(model, i, t).  Here every indexed variable of one building   *)
(* is a sequence over the timeslots assigned so far, and the action        *)
(* AssignSlot extends every sequence by the values of the next timeslot,   *)
(* allowed exactly when all the rules generated for that timeslot hold.    *)
(* A state whose sequences have numberOfTimeSlotsPerWeek entries is a      *)
(* feasible assignment of the building's constraints.                      *)
(*                                                                         *)
(* Real-valued quantities are integers in fixed units: coefficients in     *)
(* percent, efficiencies in percent, and an equation with a division is    *)
(* stated cross-multiplied, so that no rounding enters the model.          *)
(***************************************************************************)
EXTENDS Integers, Sequences, FiniteSets

(***************************************************************************)
(* Bounds of the model.                                                    *)
(***************************************************************************)
\* timeslots of the horizon (SetUpScenarios.numberOfTimeSlotsPerWeek)
MaxT == 4
\* buildings of one building type (SetUpScenarios.numberOfBuildings_BTx)
MaxBuildings == 2

numberOfTimeSlotsPerWeek == MaxT
set_timeslots == 1..numberOfTimeSlotsPerWeek

(***************************************************************************)
(* Scenario parameters (module SetUpScenarios / Run_Simulations, read by   *)
(* the rules below).                                                       *)
(***************************************************************************)
timeResolution_InMinutes == 1
electricalPower_HP == 100
electricalPower_HP_BT4_MFH == 200
minimalModulationdDegree_HP == 20
\* capacityOfBufferStorage * densityOfCement * specificHeatCapacityOfCement
thermalMassBufferStorage == 600
thermalMassBufferStorage_BT4_MFH == 1200
\* temperatureOfTheHotWaterInTheDHWTank * densityOfWater * specificHeatCapacityOfWater
thermalMassDHWTank == 600
standingLossesBufferStorage == 10
standingLossesBufferStorage_BT4_MFH == 30
standingLossesDHWTank == 10
initialBufferStorageTemperature == 30
initialUsableVolumeDHWTank == 30
minimalBufferStorageTemperature == 0
maximalBufferStorageTemperature == 60
minimumCapacityDHWTankOptimization == 0
maximumCapacityDHWTankOptimization == 60
endBufferStorageTemperatureAllowedDeviationFromInitalValue == 20
endUsableVolumeDHWTankAllowedDeviationFromInitialValue == 20

chargingPowerMaximal_BAT == 20
capacityMaximal_BAT == 3000
initialSOC_BAT == 50
endSOC_BATAllowedDeviationFromInitalValueLowerLimit == 30
endSOC_BATAllowedDeviationFromInitalValueUpperLimit == 30
\* the EV: charging power in W, capacity in J, SOC and efficiency in percent
chargingPowerMaximal_EV == 25
capacityMaximal_EV == 3000
initialSOC_EV == 50
endSOC_EVAllowedDeviationFromInitalValue == 30
chargingEfficiency_EV == 80

revenueForFeedingBackElecticityIntoTheGrid_CentsPerkWh == 8

\* values a modulation coefficient takes, in percent of the rated power:
\* off, below the minimal modulation degree, full power
CoeffVals == {0, 10, 100}
Binary == {0, 1}
\* a building with buffer storage and DHW tank behind one heat pump (the
\* heat-pump rules of BT1 are those of BT2, word for word), and the
\* multi-family building BT4 with the buffer storage alone
BuildingTypes == {"BT2", "BT4"}
StartLimitVals == {1, 2}
\* (dis)charging efficiencies of the battery, in percent
EfficiencyVals == {80, 100}
\* (dis)charging powers of the battery, in W
BatteryPowerVals == {0, chargingPowerMaximal_BAT}
\* energy levels of the battery, in J: the multiples of one minute at 1 W
EnergyLevelVals == {e \in 0..capacityMaximal_BAT : e % 60 = 0}
\* electrical demand series of the battery building, in W
\* electrical demand of a building with a heat pump or an EV, in W
DemandSeries == { [t \in set_timeslots |-> 100] }
\* the building types of the scenario
AllBuildingTypes == {"BT1", "BT2", "BT3", "BT4", "BT5"}
\* the indices of the buildings in the list of installed PV peaks
BuildingIndices == 0..(5 * MaxBuildings - 1)
\* numbers of buildings per building type
BuildingCounts == [AllBuildingTypes -> 0..MaxBuildings]
\* installed PV peaks of the buildings, in W
PVPeaks ==
  { [index \in BuildingIndices |-> 400],
    [index \in BuildingIndices |-> IF index % 2 = 0 THEN 400 ELSE 200] }
\* PV generation of a building, in percent of its installed peak
PVNominalSeries ==
  { [t \in set_timeslots |-> 0],
    [t \in set_timeslots |-> 25],
    [t \in set_timeslots |-> IF t % 2 = 1 THEN 75 ELSE 0] }
\* electricity price, in cents per kWh
PriceSeries ==
  { [t \in set_timeslots |-> 30],
    [t \in set_timeslots |-> IF t % 2 = 1 THEN 0 ELSE 30] }
\* the load over all buildings, in W
LoadVals == {5 * k : k \in 0..80}
\* powers of the portfolio, in W
PowerVals == {20 * k : k \in 0..20}
SignedPowerVals == {20 * k : k \in (0 - 20)..20}
\* candidates of the peak-load objective variable, in W
MaximumLoadVals == {0, 100, 200, 300, 400}
\* costs and revenues of one timeslot, in 1/3600000 cent
MoneyVals ==
  { x * timeResolution_InMinutes * 60 * c :
      x \in SignedPowerVals,
      c \in {0, 30, revenueForFeedingBackElecticityIntoTheGrid_CentsPerkWh} }
\* weights, normalization values and objective values of the objective
WeightVals == { << <<1, 2>>, <<1, 4>>, <<1, 4>> >>, << <<1, 1>>, <<1, 1>>, <<1, 1>> >> }
NormalizationVals == {1, 2}
ObjectiveVals == {0, 6}
\* temperatures of the buffer storage: the bounds of the variable
TemperatureVals_Unbounded ==
  (minimalBufferStorageTemperature - 60)..(maximalBufferStorageTemperature + 60)

TemperatureVals == minimalBufferStorageTemperature..maximalBufferStorageTemperature
\* charging powers of the EV, in W
EVPowerVals == {0, chargingPowerMaximal_EV}
\* energy levels of the EV, in J: the multiples of one minute at 1 W
EnergyLevelVals_EV == {e \in 0..capacityMaximal_EV : e % 60 = 0}
\* availability of the EV at home (0/1) and the energy of its trips, in J:
\* always at home, or away in the even timeslots
EVPatterns ==
  { << [t \in set_timeslots |-> 1], [t \in set_timeslots |-> 0] >>,
    << [t \in set_timeslots |-> t % 2],
       [t \in set_timeslots |-> IF t % 2 = 1 THEN 0 ELSE 600] >>,
    << [t \in set_timeslots |-> t % 2],
       [t \in set_timeslots |-> IF t % 2 = 1 THEN 0 ELSE 1200] >> }
DemandSeries_BT5 ==
  { [t \in set_timeslots |-> 20],
    [t \in set_timeslots |-> IF t % 2 = 1 THEN 0 ELSE 20] }

\* demand and COP series of one week: a flat one and one that alternates
Scenarios ==
  { [heat |-> [t \in set_timeslots |-> 90],
     dhw  |-> [t \in set_timeslots |-> 40],
     copSH |-> [t \in set_timeslots |-> 2],
     copDHW |-> [t \in set_timeslots |-> 2]],
    [heat |-> [t \in set_timeslots |-> IF t % 2 = 1 THEN 90 ELSE 130],
     dhw  |-> [t \in set_timeslots |-> IF t % 2 = 1 THEN 40 ELSE 90],
     copSH |-> [t \in set_timeslots |-> IF t % 2 = 1 THEN 2 ELSE 3],
     copDHW |-> [t \in set_timeslots |-> IF t % 2 = 1 THEN 2 ELSE 3]] }

VARIABLES
  buildingType,
  considerMaxiumNumberOfStartsHP_Individual,
  considerMaximumNumberOfStartsHP_Combined,
  considerMaxiumNumberOfStartsHP_MFH_Individual,
  isHPAlwaysSwitchedOn,
  maximumNumberOfStarts_Individual,
  maximumNumberOfStarts_Combined,
  param_heatDemand_In_W,
  param_DHWDemand_In_W,
  param_COPHeatPump_SpaceHeating,
  param_COPHeatPump_DHW,
  variable_heatGenerationCoefficient_SpaceHeating,
  variable_heatGenerationCoefficient_DHW,
  variable_help_OnlyOneStorage,
  variable_temperatureBufferStorage,
  variable_usableVolumeDHWTank,
  variable_HPswitchedOff_Individual_SpaceHeating,
  variable_HPswitchedOff_Individual_DHW,
  variable_HPswitchedOff_Combined,
  variable_HPswitchedOff_HelpAssociatedBinary_SpaceHeating,
  variable_HPswitchedOff_HelpAssociatedBinary_DHW,
  \* BT5: the battery
  chargingEfficiency_BAT,
  dischargingEfficiency_BAT,
  param_electricalDemand_In_W_BT5,
  variable_currentChargingPowerBAT,
  variable_currentDisChargingPowerBAT,
  variable_helpBinaryChargingPositive,
  variable_energyLevelBAT,
  variable_SOC_BAT,
  variable_electricalPowerTotal_BT5,
  \* BT3: the EV (the EV rules of BT1 are those of BT3, word for word)
  param_availabilityPerTimeSlotOfEV,
  param_energyConsumptionEV_Joule,
  variable_currentChargingPowerEV,
  variable_energyLevelEV,
  variable_SOC_EV,
  \* the portfolio: the buildings and the equations over all buildings
  numberOfBuildings,
  pvPeakOfBuildings,
  variable_pvGeneration,
  param_electricalDemand_In_W,
  param_pvGenerationNominal,
  param_electricityPrice_In_Cents,
  variable_RESGenerationTotal,
  variable_PVGenerationTotal,
  variable_electricalPowerTotal,
  variable_surplusPowerTotal,
  variable_surplusPowerPositivePart,
  variable_surplusPowerNegativePart,
  variable_help_isSurplusPowerPositive,
  variable_costsPerTimeSlot,
  variable_revenuePerTimeSlot,
  variable_objectiveMaximumLoad,
  variable_objectiveSurplusEnergy,
  variable_objectiveCosts,
  \* Run_Simulations: the objective configuration, and the objective built
  optimization_1Objective,
  optimization_2Objective,
  optimization_3Objectives,
  optimizationGoal_minimizeSurplusEnergy,
  optimizationGoal_minimizePeakLoad,
  optimizationGoal_minimizeCosts,
  objective_minimizePeakLoad_weight,
  objective_minimizeCosts_weight,
  objective_minimizeSurplusEnergy_weight,
  objective_minimizePeakLoad_normalizationValue,
  objective_minimizeCosts_normalizationValue,
  objective_minimizeSurplusEnergy_normalizationValue,
  objective_combined_general,
  solution,
  results,
  resultFiles,
  returned,
  now,
  directories,
  files,
  calls,
  \* ANN.py, generateActionsForSingleTimeslotWithANN_SingleBuildingOptScenario:
  \* the locals of the single-timeslot loop of the building simulated
  iteration,
  state_indexCurrentTimeslot,
  df_priceData,
  state_PVGeneration,
  state_heatDemand,
  state_DHWDemand,
  state_electricityDemand,
  state_availabilityOfTheEV,
  state_outsideTemperature,
  state_priceForElectricity_CentsPerkWh,
  vector_input_features,
  action_heatCoefficientSpaceHeating,
  action_heatCoefficientDHW,
  help_actionPreviousTimeSlot_heatCoefficientSpaceHeating,
  help_actionPreviousTimeSlot_heatCoefficientDHW,
  help_countNumberOfStartHeatPump_Heating_Combined,
  helpCounterNumberOfRunningSlots_Combined,
  heatPumpIsRunning,
  outputVector_heatGenerationCoefficientSpaceHeating,
  outputVector_heatGenerationCoefficientDHW,
  helpCounterTimeSlotsForUpdatingEDFPrices,
  updatingFrequencyEDFPrices,
  ecdf_prices,
  priceFactor,
  resultinValueMLMethod,
  action_chargingPowerBAT_NotOverruled,
  action_disChargingPowerBAT_NotOverruled,
  \* ANN.py, the training labels of the battery and the decoding of the
  \* prediction for the whole week
  array_ChargingPowerBat,
  array_disChargingPowerBat,
  array_chargingPowerBatCombinedVariable,
  outputVector_chargingBATCombinedVariable,
  outputVector_chargingBAT,
  outputVector_disChargingBAT

vars_config ==
  << buildingType,
     considerMaxiumNumberOfStartsHP_Individual,
     considerMaximumNumberOfStartsHP_Combined,
     considerMaxiumNumberOfStartsHP_MFH_Individual,
     isHPAlwaysSwitchedOn,
     maximumNumberOfStarts_Individual,
     maximumNumberOfStarts_Combined,
     param_heatDemand_In_W,
     param_DHWDemand_In_W,
     param_COPHeatPump_SpaceHeating,
     param_COPHeatPump_DHW >>

vars_HP ==
  << variable_heatGenerationCoefficient_SpaceHeating,
     variable_heatGenerationCoefficient_DHW,
     variable_help_OnlyOneStorage,
     variable_temperatureBufferStorage,
     variable_usableVolumeDHWTank,
     variable_HPswitchedOff_Individual_SpaceHeating,
     variable_HPswitchedOff_Individual_DHW,
     variable_HPswitchedOff_Combined,
     variable_HPswitchedOff_HelpAssociatedBinary_SpaceHeating,
     variable_HPswitchedOff_HelpAssociatedBinary_DHW >>

vars_BAT ==
  << chargingEfficiency_BAT,
     dischargingEfficiency_BAT,
     param_electricalDemand_In_W_BT5,
     variable_currentChargingPowerBAT,
     variable_currentDisChargingPowerBAT,
     variable_helpBinaryChargingPositive,
     variable_energyLevelBAT,
     variable_SOC_BAT,
     variable_electricalPowerTotal_BT5 >>

vars_EV ==
  << param_availabilityPerTimeSlotOfEV,
     param_energyConsumptionEV_Joule,
     variable_currentChargingPowerEV,
     variable_energyLevelEV,
     variable_SOC_EV >>

vars_portfolio ==
  << numberOfBuildings,
     pvPeakOfBuildings,
     variable_pvGeneration,
     param_electricalDemand_In_W,
     param_pvGenerationNominal,
     param_electricityPrice_In_Cents,
     variable_RESGenerationTotal,
     variable_PVGenerationTotal,
     variable_electricalPowerTotal,
     variable_surplusPowerTotal,
     variable_surplusPowerPositivePart,
     variable_surplusPowerNegativePart,
     variable_help_isSurplusPowerPositive,
     variable_costsPerTimeSlot,
     variable_revenuePerTimeSlot >>

vars_objectiveValues ==
  << variable_objectiveMaximumLoad,
     variable_objectiveSurplusEnergy,
     variable_objectiveCosts >>

vars_objectiveConfig ==
  << optimization_1Objective,
     optimization_2Objective,
     optimization_3Objectives,
     optimizationGoal_minimizeSurplusEnergy,
     optimizationGoal_minimizePeakLoad,
     optimizationGoal_minimizeCosts,
     objective_minimizePeakLoad_weight,
     objective_minimizeCosts_weight,
     objective_minimizeSurplusEnergy_weight,
     objective_minimizePeakLoad_normalizationValue,
     objective_minimizeCosts_normalizationValue,
     objective_minimizeSurplusEnergy_normalizationValue >>

\* the result of solver.solve, the result frames built from it, the files
\* written to folderPath and the value returned by optimizeOneWeek
vars_solve == << solution, results, resultFiles, returned >>

\* the clock, the result directories and the result files of the machine,
\* and the calls of optimizeOneWeek that run on it in separate processes
vars_calls == << now, directories, files, calls >>

\* the exogenous values of the current timeslot in the single-timeslot loop
vars_state ==
  << state_PVGeneration, state_heatDemand, state_DHWDemand, state_electricityDemand,
     state_availabilityOfTheEV, state_outsideTemperature,
     state_priceForElectricity_CentsPerkWh >>

\* the actions of the heat pump in the loop, its start and running counters
vars_heatPump ==
  << action_heatCoefficientSpaceHeating, action_heatCoefficientDHW,
     help_actionPreviousTimeSlot_heatCoefficientSpaceHeating,
     help_actionPreviousTimeSlot_heatCoefficientDHW,
     help_countNumberOfStartHeatPump_Heating_Combined,
     helpCounterNumberOfRunningSlots_Combined, heatPumpIsRunning,
     outputVector_heatGenerationCoefficientSpaceHeating,
     outputVector_heatGenerationCoefficientDHW >>

\* the price distribution of the BT4 loop
vars_ecdf ==
  << helpCounterTimeSlotsForUpdatingEDFPrices, updatingFrequencyEDFPrices, ecdf_prices,
     priceFactor >>

\* the battery action of the BT5 loop
vars_battery == << resultinValueMLMethod, action_chargingPowerBAT_NotOverruled, action_disChargingPowerBAT_NotOverruled >>

\* the battery labels of the training and of the multi-timeslot prediction
vars_labels ==
  << array_ChargingPowerBat, array_disChargingPowerBat,
     array_chargingPowerBatCombinedVariable, outputVector_chargingBATCombinedVariable,
     outputVector_chargingBAT, outputVector_disChargingBAT >>

vars_loop ==
  << iteration, state_indexCurrentTimeslot, df_priceData, vars_state, vector_input_features,
     vars_heatPump, vars_ecdf, vars_battery >>

vars_ANN == << vars_loop, vars_labels >>

vars ==
  << vars_config, vars_HP, vars_BAT, vars_EV, vars_portfolio, vars_objectiveValues,
     vars_objectiveConfig, objective_combined_general, vars_solve, vars_calls,
     vars_ANN >>

(***************************************************************************)
(* What a constraint rule returns: pyo.Constraint.Skip (no constraint is   *)
(* generated), pyo.Constraint.Feasible, or a relational expression, which  *)
(* an assignment satisfies ("Sat") or violates ("Viol").                   *)
(***************************************************************************)
Con(b) == IF b THEN "Sat" ELSE "Viol"
Satisfied(r) == r # "Viol"
Generated(r) == r \in {"Sat", "Viol"}

RECURSIVE SumSeq(_)
SumSeq(s) == IF s = << >> THEN 0 ELSE Head(s) + SumSeq(Tail(s))

\* the building has a DHW tank next to the buffer storage (BT1, BT2)
HasDHW == buildingType = "BT2"

ratedPower == IF buildingType = "BT4" THEN electricalPower_HP_BT4_MFH ELSE electricalPower_HP
bufferLosses ==
  IF buildingType = "BT4" THEN standingLossesBufferStorage_BT4_MFH ELSE standingLossesBufferStorage
bufferMass ==
  IF buildingType = "BT4" THEN thermalMassBufferStorage_BT4_MFH ELSE thermalMassBufferStorage

(***************************************************************************)
(* Thermal storage: the energetic difference equations.  A coefficient is  *)
(* in percent, so both sides are multiplied by 100 and by the thermal      *)
(* mass.                                                                   *)
(***************************************************************************)
\* the first timeslot continued from the lower bound, not the initial value
temperatureBufferStorageConstraintRule_WrongStart(T_, C_, t) ==
  LET dt == timeResolution_InMinutes * 60
      gain == C_[t] * param_COPHeatPump_SpaceHeating[t] * ratedPower * dt
              - 100 * param_heatDemand_In_W[t] * dt
              - 100 * bufferLosses * dt
  IN  IF t = 1
      THEN Con(100 * bufferMass * T_[t]
                 = 100 * bufferMass * (initialBufferStorageTemperature - 2) + gain)
      ELSE Con(100 * bufferMass * T_[t] = 100 * bufferMass * T_[t - 1] + gain)

temperatureBufferStorageConstraintRule(T_, C_, t) ==
  LET dt == timeResolution_InMinutes * 60
      gain == C_[t] * param_COPHeatPump_SpaceHeating[t] * ratedPower * dt
              - 100 * param_heatDemand_In_W[t] * dt
              - 100 * bufferLosses * dt
  IN  IF t = 1
      THEN Con(100 * bufferMass * T_[t]
                 = 100 * bufferMass * initialBufferStorageTemperature + gain)
      ELSE Con(100 * bufferMass * T_[t] = 100 * bufferMass * T_[t - 1] + gain)

temperatureBufferStorage_lastLowerLimitRule(T_) ==
  Con(T_[numberOfTimeSlotsPerWeek]
        >= initialBufferStorageTemperature
             - endBufferStorageTemperatureAllowedDeviationFromInitalValue)

temperatureBufferStorage_lastUpperLimitRule(T_) ==
  Con(T_[numberOfTimeSlotsPerWeek]
        <= initialBufferStorageTemperature
             + endBufferStorageTemperatureAllowedDeviationFromInitalValue)

volumeDHWTankConstraintRule(V_, C_, t) ==
  LET dt == timeResolution_InMinutes * 60
      gain == C_[t] * param_COPHeatPump_DHW[t] * electricalPower_HP * dt
              - 100 * param_DHWDemand_In_W[t] * dt
              - 100 * standingLossesDHWTank * dt
  IN  IF t = 1
      THEN Con(100 * thermalMassDHWTank * V_[t]
                 = 100 * thermalMassDHWTank * initialUsableVolumeDHWTank + gain)
      ELSE Con(100 * thermalMassDHWTank * V_[t]
                 = 100 * thermalMassDHWTank * V_[t - 1] + gain)

volumeDHWTank_lastLowerLimitRule(V_) ==
  Con(V_[numberOfTimeSlotsPerWeek]
        >= initialUsableVolumeDHWTank
             - endUsableVolumeDHWTankAllowedDeviationFromInitialValue)

volumeDHWTank_lastUpperLimitRule(V_) ==
  Con(V_[numberOfTimeSlotsPerWeek]
        <= initialUsableVolumeDHWTank
             + endUsableVolumeDHWTankAllowedDeviationFromInitialValue)

(***************************************************************************)
(* Only one storage is heated up in each timeslot (BT1, BT2).              *)
(***************************************************************************)
onlyOneStorageRule_1(CS_, O_, t) == Con(CS_[t] <= 100 * O_[t])

\* the DHW coefficient bounded by the same side of the binary as space heating
onlyOneStorageRule_2_SameSide(CD_, O_, t) == Con(CD_[t] <= 100 * O_[t])

onlyOneStorageRule_2(CD_, O_, t) == Con(CD_[t] <= 100 * (1 - O_[t]))

\* BT4 has the space-heating coefficient alone (CD_ is constantly 0 there)
minimalModulationDegreeOfTheHeatPumpRule(CS_, CD_, t) ==
  IF isHPAlwaysSwitchedOn
  THEN Con(CS_[t] + CD_[t] >= minimalModulationdDegree_HP)
  ELSE "Feasible"

(***************************************************************************)
(* Maximum number of starts of the heat pump.  The individual family is    *)
(* the same text for the space heating and the DHW sink of BT1 and BT2     *)
(* and for the space heating of BT4, where the flag is the MFH one.        *)
(***************************************************************************)
considerIndividual ==
  IF buildingType = "BT4"
  THEN considerMaxiumNumberOfStartsHP_MFH_Individual
  ELSE considerMaxiumNumberOfStartsHP_Individual

\* EQ1 without its bound by the helper of the timeslot before
maximumNumberOfStarts_Individual_EQ1_Rule_Unbounded(S_, H_, t) ==
  IF considerIndividual
  THEN IF t = 1 THEN Con(S_[t] = 0) ELSE Con(S_[t] <= 1)
  ELSE "Skip"

maximumNumberOfStarts_Individual_EQ1_Rule(S_, H_, t) ==
  IF considerIndividual
  THEN IF t = 1 THEN Con(S_[t] = 0) ELSE Con(S_[t] <= H_[t - 1])
  ELSE "Skip"

maximumNumberOfStarts_Individual_EQ2_Rule(S_, H_, t) ==
  IF considerIndividual THEN Con(H_[t] + S_[t] <= 1) ELSE "Skip"

\* EQ2_2 never generated
maximumNumberOfStarts_Individual_EQ2_2_Rule_Skipped(S_, H_, t) == "Skip"

maximumNumberOfStarts_Individual_EQ2_2_Rule(S_, H_, t) ==
  IF considerIndividual
  THEN IF t = 1 THEN Con(S_[t] = 0) ELSE Con(H_[t - 1] <= H_[t] + S_[t])
  ELSE "Skip"

maximumNumberOfStarts_Individual_EQ3_HelpAssociatedBinary_Rule(H_, C_, t) ==
  IF considerIndividual \/ considerMaximumNumberOfStartsHP_Combined
  THEN Con(100 * H_[t] >= C_[t])
  ELSE "Skip"

\* EQ4 with the factor 1 in place of 1 / (minimalModulationdDegree_HP / 100)
maximumNumberOfStarts_Individual_EQ4_HelpAssociatedBinary_Rule_Factor1(H_, C_, t) ==
  IF considerIndividual \/ considerMaximumNumberOfStartsHP_Combined
  THEN Con(C_[t] >= H_[t])
  ELSE "Skip"

maximumNumberOfStarts_Individual_EQ4_HelpAssociatedBinary_Rule(H_, C_, t) ==
  IF considerIndividual \/ considerMaximumNumberOfStartsHP_Combined
  THEN Con(C_[t] >= minimalModulationdDegree_HP * H_[t])
  ELSE "Skip"

\* the sum runs over the timeslots assigned so far; its terms are >= 0
maximumNumberOfStarts_Individual_EQ5_NumberOfStarts_Rule(S_) ==
  IF considerIndividual
  THEN Con(SumSeq(S_) <= maximumNumberOfStarts_Individual)
  ELSE "Skip"

\* EQ1 of the combined start limit without the link to the helper binaries
maximumNumberOfStarts_Combined_EQ1_Rule_Unlinked(K_, HS_, HD_, t) ==
  IF considerMaximumNumberOfStartsHP_Combined
  THEN Con(t = 1 => K_[t] = 0)
  ELSE "Skip"

maximumNumberOfStarts_Combined_EQ1_Rule(K_, HS_, HD_, t) ==
  IF considerMaximumNumberOfStartsHP_Combined
  THEN IF t = 1
       THEN Con(K_[t] = 0)
       ELSE Con(HS_[t - 1] + HD_[t - 1] <= HS_[t] + HD_[t] + K_[t])
  ELSE "Skip"

maximumNumberOfStarts_Combined_EQ2_Rule(K_, HS_, HD_, t) ==
  IF considerMaximumNumberOfStartsHP_Combined
  THEN IF t = 1 THEN Con(K_[t] = 0) ELSE Con(HS_[t] + HD_[t] <= 1)
  ELSE "Skip"

maximumNumberOfStarts_Combined_EQ3_NumberOfStarts_Rule(K_) ==
  IF considerMaximumNumberOfStartsHP_Combined
  THEN Con(SumSeq(K_) <= maximumNumberOfStarts_Combined)
  ELSE "Skip"

(***************************************************************************)
(* The domain of a variable of the start-limit system in one timeslot.  A  *)
(* binary that no generated constraint mentions is not part of the solved  *)
(* problem and keeps the value it was declared with.                       *)
(***************************************************************************)
BinaryVar(constrained) == IF constrained THEN Binary ELSE {0}

(***************************************************************************)
(* All constraints of one heat-pump building that mention timeslot t, on   *)
(* the candidate sequences.                                                *)
(***************************************************************************)
BufferRulesHold(T_, CS_, t) ==
  /\ Satisfied(temperatureBufferStorageConstraintRule(T_, CS_, t))
  /\ t = numberOfTimeSlotsPerWeek =>
       /\ Satisfied(temperatureBufferStorage_lastLowerLimitRule(T_))
       /\ Satisfied(temperatureBufferStorage_lastUpperLimitRule(T_))

DHWTankRulesHold(V_, CD_, t) ==
  /\ Satisfied(volumeDHWTankConstraintRule(V_, CD_, t))
  /\ t = numberOfTimeSlotsPerWeek =>
       /\ Satisfied(volumeDHWTank_lastLowerLimitRule(V_))
       /\ Satisfied(volumeDHWTank_lastUpperLimitRule(V_))

CoefficientRulesHold(CS_, CD_, O_, t) ==
  /\ HasDHW =>
       /\ Satisfied(onlyOneStorageRule_1(CS_, O_, t))
       /\ Satisfied(onlyOneStorageRule_2(CD_, O_, t))
  /\ Satisfied(minimalModulationDegreeOfTheHeatPumpRule(CS_, CD_, t))

IndividualRulesHold(S_, H_, C_, t) ==
  /\ Satisfied(maximumNumberOfStarts_Individual_EQ1_Rule(S_, H_, t))
  /\ Satisfied(maximumNumberOfStarts_Individual_EQ2_Rule(S_, H_, t))
  /\ Satisfied(maximumNumberOfStarts_Individual_EQ2_2_Rule(S_, H_, t))
  /\ Satisfied(maximumNumberOfStarts_Individual_EQ3_HelpAssociatedBinary_Rule(H_, C_, t))
  /\ Satisfied(maximumNumberOfStarts_Individual_EQ4_HelpAssociatedBinary_Rule(H_, C_, t))
  /\ Satisfied(maximumNumberOfStarts_Individual_EQ5_NumberOfStarts_Rule(S_))

CombinedRulesHold(K_, HS_, HD_, t) ==
  HasDHW =>
    /\ Satisfied(maximumNumberOfStarts_Combined_EQ1_Rule(K_, HS_, HD_, t))
    /\ Satisfied(maximumNumberOfStarts_Combined_EQ2_Rule(K_, HS_, HD_, t))
    /\ Satisfied(maximumNumberOfStarts_Combined_EQ3_NumberOfStarts_Rule(K_))

\* timeslots assigned so far
assigned == Len(variable_heatGenerationCoefficient_SpaceHeating)
Complete == assigned = numberOfTimeSlotsPerWeek

InitHP ==
  /\ buildingType \in BuildingTypes
  /\ considerMaxiumNumberOfStartsHP_Individual \in BOOLEAN
  /\ considerMaximumNumberOfStartsHP_Combined \in BOOLEAN
  /\ considerMaxiumNumberOfStartsHP_MFH_Individual \in BOOLEAN
  /\ isHPAlwaysSwitchedOn \in BOOLEAN
  /\ \E m \in StartLimitVals :
       /\ maximumNumberOfStarts_Individual = m
       /\ maximumNumberOfStarts_Combined = m
  /\ \E s \in Scenarios :
       /\ param_heatDemand_In_W = s.heat
       /\ param_DHWDemand_In_W = s.dhw
       /\ param_COPHeatPump_SpaceHeating = s.copSH
       /\ param_COPHeatPump_DHW = s.copDHW
  /\ variable_heatGenerationCoefficient_SpaceHeating = << >>
  /\ variable_heatGenerationCoefficient_DHW = << >>
  /\ variable_help_OnlyOneStorage = << >>
  /\ variable_temperatureBufferStorage = << >>
  /\ variable_usableVolumeDHWTank = << >>
  /\ variable_HPswitchedOff_Individual_SpaceHeating = << >>
  /\ variable_HPswitchedOff_Individual_DHW = << >>
  /\ variable_HPswitchedOff_Combined = << >>
  /\ variable_HPswitchedOff_HelpAssociatedBinary_SpaceHeating = << >>
  /\ variable_HPswitchedOff_HelpAssociatedBinary_DHW = << >>

(***************************************************************************)
(* The values of timeslot t = assigned + 1 of one building: any values of  *)
(* the declared domains that satisfy every generated constraint.           *)
(***************************************************************************)
HeatPumpSlot ==
  LET t == assigned + 1
      helperOn == considerIndividual \/ considerMaximumNumberOfStartsHP_Combined
  IN
  /\ t <= numberOfTimeSlotsPerWeek
  /\ \E cs \in CoeffVals,
        cd \in (IF HasDHW THEN CoeffVals ELSE {0}),
        o \in (IF HasDHW THEN Binary ELSE {0}) :
       LET CS_ == Append(variable_heatGenerationCoefficient_SpaceHeating, cs)
           CD_ == Append(variable_heatGenerationCoefficient_DHW, cd)
           O_ == Append(variable_help_OnlyOneStorage, o)
       IN
       /\ CoefficientRulesHold(CS_, CD_, O_, t)
       /\ \E temp \in TemperatureVals :
            LET T_ == Append(variable_temperatureBufferStorage, temp)
            IN  /\ BufferRulesHold(T_, CS_, t)
                /\ variable_temperatureBufferStorage' = T_
       /\ \E vol \in (IF HasDHW
                      THEN minimumCapacityDHWTankOptimization..maximumCapacityDHWTankOptimization
                      ELSE {0}) :
            LET V_ == Append(variable_usableVolumeDHWTank, vol)
            IN  /\ HasDHW => DHWTankRulesHold(V_, CD_, t)
                /\ variable_usableVolumeDHWTank' = V_
       /\ \E hs \in BinaryVar(helperOn), ss \in BinaryVar(considerIndividual) :
            LET HS_ == Append(variable_HPswitchedOff_HelpAssociatedBinary_SpaceHeating, hs)
                SS_ == Append(variable_HPswitchedOff_Individual_SpaceHeating, ss)
            IN
            /\ IndividualRulesHold(SS_, HS_, CS_, t)
            /\ \E hd \in BinaryVar(helperOn /\ HasDHW),
                  sd \in BinaryVar(considerIndividual /\ HasDHW) :
                 LET HD_ == Append(variable_HPswitchedOff_HelpAssociatedBinary_DHW, hd)
                     SD_ == Append(variable_HPswitchedOff_Individual_DHW, sd)
                 IN
                 /\ HasDHW => IndividualRulesHold(SD_, HD_, CD_, t)
                 /\ \E k \in BinaryVar(considerMaximumNumberOfStartsHP_Combined /\ HasDHW) :
                      LET K_ == Append(variable_HPswitchedOff_Combined, k)
                      IN  /\ CombinedRulesHold(K_, HS_, HD_, t)
                          /\ variable_HPswitchedOff_Combined' = K_
                 /\ variable_HPswitchedOff_HelpAssociatedBinary_DHW' = HD_
                 /\ variable_HPswitchedOff_Individual_DHW' = SD_
            /\ variable_HPswitchedOff_HelpAssociatedBinary_SpaceHeating' = HS_
            /\ variable_HPswitchedOff_Individual_SpaceHeating' = SS_
       /\ variable_heatGenerationCoefficient_SpaceHeating' = CS_
       /\ variable_heatGenerationCoefficient_DHW' = CD_
       /\ variable_help_OnlyOneStorage' = O_
  /\ UNCHANGED vars_config

(***************************************************************************)
(* BT5: the battery.  Efficiencies are in percent; the energy equation is  *)
(* multiplied by 100 and by the efficiency the discharge is divided by.    *)
(***************************************************************************)
energyLevelOfBATRule_BT5(E_, P_, D_, t) ==
  LET dt == timeResolution_InMinutes * 60
      initial == (initialSOC_BAT * capacityMaximal_BAT) \div 100
  IN  IF t = 1
      THEN Con(100 * chargingEfficiency_BAT * E_[t]
                 = 100 * chargingEfficiency_BAT * initial
                   + ( P_[t] * chargingEfficiency_BAT * chargingEfficiency_BAT
                       - D_[t] * 10000 ) * dt)
      ELSE Con(100 * dischargingEfficiency_BAT * E_[t]
                 = 100 * dischargingEfficiency_BAT * E_[t - 1]
                   + ( P_[t] * chargingEfficiency_BAT * dischargingEfficiency_BAT
                       - D_[t] * 10000 ) * dt)

constraint_energyLevelOfBAT_lastLowerLimitRule_BT5(E_) ==
  Con(100 * E_[numberOfTimeSlotsPerWeek]
        >= (initialSOC_BAT - endSOC_BATAllowedDeviationFromInitalValueLowerLimit)
             * capacityMaximal_BAT)

constraint_energyLevelOfBAT_lastUpperLimitRule_BT5(E_) ==
  Con(100 * E_[numberOfTimeSlotsPerWeek]
        <= (initialSOC_BAT + endSOC_BATAllowedDeviationFromInitalValueUpperLimit)
             * capacityMaximal_BAT)

socOfBATRule_BT5(S_, E_, t) == Con(S_[t] * capacityMaximal_BAT = E_[t] * 100)

chargingDischargingPowerOfTheBATRule1_BT5(P_, B_, t) ==
  Con(P_[t] <= chargingPowerMaximal_BAT * B_[t])

chargingDischargingPowerOfTheBATRule2_BT5_Ungated(D_, B_, t) ==
  Con(D_[t] <= chargingPowerMaximal_BAT)

chargingDischargingPowerOfTheBATRule2_BT5(D_, B_, t) ==
  Con(D_[t] <= chargingPowerMaximal_BAT * (1 - B_[t]))

limitDisChargingPowerOfTheBAT_BT5_Feasible(D_, t) == "Feasible"

limitDisChargingPowerOfTheBAT_BT5(D_, t) ==
  Con(D_[t] <= param_electricalDemand_In_W_BT5[t])

electricalPowerTotalRule_BT5(L_, P_, D_, t) ==
  Con(L_[t] = P_[t] - D_[t] + param_electricalDemand_In_W_BT5[t])

\* values of the electrical power of the battery building, in W
ElectricalPowerVals_BT5 ==
  (0 - chargingPowerMaximal_BAT)..(2 * chargingPowerMaximal_BAT)

assigned_BT5 == Len(variable_energyLevelBAT)
Complete_BT5 == assigned_BT5 = numberOfTimeSlotsPerWeek

InitBAT ==
  /\ chargingEfficiency_BAT \in EfficiencyVals
  /\ dischargingEfficiency_BAT \in EfficiencyVals
  /\ param_electricalDemand_In_W_BT5 \in DemandSeries_BT5
  /\ variable_currentChargingPowerBAT = << >>
  /\ variable_currentDisChargingPowerBAT = << >>
  /\ variable_helpBinaryChargingPositive = << >>
  /\ variable_energyLevelBAT = << >>
  /\ variable_SOC_BAT = << >>
  /\ variable_electricalPowerTotal_BT5 = << >>

\* the values of timeslot t = assigned_BT5 + 1 of one battery building
BatterySlot ==
  LET t == assigned_BT5 + 1 IN
  /\ t <= numberOfTimeSlotsPerWeek
  /\ \E p \in BatteryPowerVals, d \in BatteryPowerVals, b \in Binary :
       LET P_ == Append(variable_currentChargingPowerBAT, p)
           D_ == Append(variable_currentDisChargingPowerBAT, d)
           B_ == Append(variable_helpBinaryChargingPositive, b)
       IN
       /\ Satisfied(chargingDischargingPowerOfTheBATRule1_BT5(P_, B_, t))
       /\ Satisfied(chargingDischargingPowerOfTheBATRule2_BT5(D_, B_, t))
       /\ Satisfied(limitDisChargingPowerOfTheBAT_BT5(D_, t))
       /\ \E l \in ElectricalPowerVals_BT5 :
            LET L_ == Append(variable_electricalPowerTotal_BT5, l) IN
            /\ Satisfied(electricalPowerTotalRule_BT5(L_, P_, D_, t))
            /\ variable_electricalPowerTotal_BT5' = L_
       /\ \E e \in EnergyLevelVals :
            LET E_ == Append(variable_energyLevelBAT, e) IN
            /\ Satisfied(energyLevelOfBATRule_BT5(E_, P_, D_, t))
            /\ t = numberOfTimeSlotsPerWeek =>
                 /\ Satisfied(constraint_energyLevelOfBAT_lastLowerLimitRule_BT5(E_))
                 /\ Satisfied(constraint_energyLevelOfBAT_lastUpperLimitRule_BT5(E_))
            /\ \E soc \in 0..100 :
                 LET S_ == Append(variable_SOC_BAT, soc) IN
                 /\ Satisfied(socOfBATRule_BT5(S_, E_, t))
                 /\ variable_SOC_BAT' = S_
            /\ variable_energyLevelBAT' = E_
       /\ variable_currentChargingPowerBAT' = P_
       /\ variable_currentDisChargingPowerBAT' = D_
       /\ variable_helpBinaryChargingPositive' = B_
  /\ UNCHANGED << chargingEfficiency_BAT, dischargingEfficiency_BAT,
                  param_electricalDemand_In_W_BT5 >>

(***************************************************************************)
(* BT3: the EV.  The charging efficiency is in percent; the energy         *)
(* equation is multiplied by 100.                                          *)
(***************************************************************************)
energyLevelOfEVRule_BT3(E_, P_, t) ==
  LET dt == timeResolution_InMinutes * 60
      initial == (initialSOC_EV * capacityMaximal_EV) \div 100
  IN  IF t = 1
      THEN Con(100 * E_[t] = 100 * initial
                 + (P_[t] * chargingEfficiency_EV * dt
                    - 100 * param_energyConsumptionEV_Joule[t]))
      ELSE Con(100 * E_[t] = 100 * E_[t - 1]
                 + (P_[t] * chargingEfficiency_EV * dt
                    - 100 * param_energyConsumptionEV_Joule[t]))

constraint_energyLevelOfEV_lastLowerLimitRule_BT3(E_) ==
  Con(100 * E_[numberOfTimeSlotsPerWeek]
        >= (initialSOC_EV - endSOC_EVAllowedDeviationFromInitalValue)
             * capacityMaximal_EV)

constraint_energyLevelOfEV_lastUpperLimitRule_BT3_Feasible(E_) == "Feasible"

constraint_energyLevelOfEV_lastUpperLimitRule_BT3(E_) ==
  Con(100 * E_[numberOfTimeSlotsPerWeek]
        <= (initialSOC_EV + endSOC_EVAllowedDeviationFromInitalValue)
             * capacityMaximal_EV)

socOfEVRule_BT3(S_, E_, t) == Con(S_[t] * capacityMaximal_EV = E_[t] * 100)

chargingPowerOfTheEVRul_BT3(P_, t) ==
  Con(P_[t] <= param_availabilityPerTimeSlotOfEV[t] * chargingPowerMaximal_EV)

assigned_BT3 == Len(variable_energyLevelEV)
Complete_BT3 == assigned_BT3 = numberOfTimeSlotsPerWeek

InitEV ==
  /\ \E pattern \in EVPatterns :
       /\ param_availabilityPerTimeSlotOfEV = pattern[1]
       /\ param_energyConsumptionEV_Joule = pattern[2]
  /\ variable_currentChargingPowerEV = << >>
  /\ variable_energyLevelEV = << >>
  /\ variable_SOC_EV = << >>

\* the values of timeslot t = assigned_BT3 + 1 of one building with an EV
EVSlot ==
  LET t == assigned_BT3 + 1 IN
  /\ t <= numberOfTimeSlotsPerWeek
  /\ \E p \in EVPowerVals :
       LET P_ == Append(variable_currentChargingPowerEV, p) IN
       /\ Satisfied(chargingPowerOfTheEVRul_BT3(P_, t))
       /\ \E e \in EnergyLevelVals_EV :
            LET E_ == Append(variable_energyLevelEV, e) IN
            /\ Satisfied(energyLevelOfEVRule_BT3(E_, P_, t))
            /\ t = numberOfTimeSlotsPerWeek =>
                 /\ Satisfied(constraint_energyLevelOfEV_lastLowerLimitRule_BT3(E_))
                 /\ Satisfied(constraint_energyLevelOfEV_lastUpperLimitRule_BT3(E_))
            /\ \E soc \in 0..100 :
                 LET S_ == Append(variable_SOC_EV, soc) IN
                 /\ Satisfied(socOfEVRule_BT3(S_, E_, t))
                 /\ variable_SOC_EV' = S_
            /\ variable_energyLevelEV' = E_
       /\ variable_currentChargingPowerEV' = P_
  /\ UNCHANGED << param_availabilityPerTimeSlotOfEV, param_energyConsumptionEV_Joule >>

(***************************************************************************)
(* The equations over all buildings.  PV-nominal is in percent; costs and   *)
(* revenues are in 1/3600000 cent, so the division by 3600000 of the code  *)
(* is the unit.  The load is that of at most one building of each of the   *)
(* types BT2 .. BT5.                                                       *)
(***************************************************************************)
\* the buildings of the scenario, in the order of the building types;
\* a building is << type, setIndex >>
BuildingTypeOrder == << "BT1", "BT2", "BT3", "BT4", "BT5" >>

AllBuildings ==
  [k \in 1..(5 * MaxBuildings) |->
     << BuildingTypeOrder[((k - 1) \div MaxBuildings) + 1],
        ((k - 1) % MaxBuildings) + 1 >>]

\* a scenario of one building of a type, or of none
OneBuilding(type) == [x \in AllBuildingTypes |-> IF x = type THEN 1 ELSE 0]

set_buildings(type) == 1..numberOfBuildings[type]

InScenario(b) == b[2] \in set_buildings(b[1])

Buildings == {AllBuildings[k] : k \in {j \in 1..(5 * MaxBuildings) : InScenario(AllBuildings[j])}}

determinePVPeakOfBuildings(index) == pvPeakOfBuildings[index]

\* the index of the installed peak of building << type, i >> in the
\* equations over all buildings
index_Total(type, i) ==
  CASE type = "BT1" -> i - 1
    [] type = "BT2" -> numberOfBuildings["BT1"] + i - 1
    [] type = "BT3" -> numberOfBuildings["BT1"] + numberOfBuildings["BT2"] + i - 1
    [] type = "BT4" -> numberOfBuildings["BT1"] + numberOfBuildings["BT2"]
                         + numberOfBuildings["BT3"] + i - 1
    [] type = "BT5" -> numberOfBuildings["BT1"] + numberOfBuildings["BT2"]
                         + numberOfBuildings["BT3"] + numberOfBuildings["BT4"] + i - 1

\* the index of the installed peak of building << type, i >> in the
\* building's own equation for its PV generation
index_BTx(type, i) ==
  CASE type = "BT1" -> i - 1
    [] type = "BT2" -> numberOfBuildings["BT1"] + i - 1
    [] type = "BT3" -> numberOfBuildings["BT1"] + numberOfBuildings["BT2"] + i - 1
    [] type = "BT4" -> numberOfBuildings["BT1"] + numberOfBuildings["BT2"]
                         + numberOfBuildings["BT3"] + i - 1
    [] type = "BT5" -> numberOfBuildings["BT1"] + numberOfBuildings["BT2"] + i - 1

PVgenerationTotalRule_BTx(PV_, type, i, t) ==
  Con(PV_[t] = (param_pvGenerationNominal[t]
                  * determinePVPeakOfBuildings(index_BTx(type, i))) \div 100)

\* the sum over the buildings i, i + 1, ... of one type of PV-nominal times
\* the installed peak
RECURSIVE pvGenerationOfBuildingsOfType(_, _, _)
pvGenerationOfBuildingsOfType(type, i, t) ==
  IF i \notin set_buildings(type)
  THEN 0
  ELSE (param_pvGenerationNominal[t]
          * determinePVPeakOfBuildings(index_Total(type, i))) \div 100
       + pvGenerationOfBuildingsOfType(type, i + 1, t)

\* the sum over all buildings of PV-nominal times the installed peak
pvGenerationOfBuildings(t) ==
  pvGenerationOfBuildingsOfType("BT1", 1, t)
  + pvGenerationOfBuildingsOfType("BT2", 1, t)
  + pvGenerationOfBuildingsOfType("BT3", 1, t)
  + pvGenerationOfBuildingsOfType("BT4", 1, t)
  + pvGenerationOfBuildingsOfType("BT5", 1, t)

\* PV generation of one building and of all buildings, in W: up to 300 W
\* for each building of the scenario
GenerationVals ==
  {50 * k : k \in 0..(6 * (numberOfBuildings["BT1"] + numberOfBuildings["BT2"]
                             + numberOfBuildings["BT3"] + numberOfBuildings["BT4"]
                             + numberOfBuildings["BT5"]))}

electricalPower_BT4(C_, t) ==
  (C_[t] * electricalPower_HP_BT4_MFH) \div 100 + param_electricalDemand_In_W[t]

param_BigM_Surplus_Positive(t) == pvGenerationOfBuildings(t) + 1000

electricalPower_BT2(CS_, CD_, t) ==
  ((CS_[t] + CD_[t]) * electricalPower_HP) \div 100 + param_electricalDemand_In_W[t]

electricalPower_BT3(EV_, t) == EV_[t] + param_electricalDemand_In_W[t]

electricalPower_BT5(P_, D_, t) == P_[t] - D_[t] + param_electricalDemand_In_W_BT5[t]

\* the summand of the buildings of one type
OfBuildings(type, summand) == IF numberOfBuildings[type] >= 1 THEN summand ELSE 0

param_BigM_Surplus_Negative_DemandOnly(t) ==
  OfBuildings("BT2", param_electricalDemand_In_W[t])
  + OfBuildings("BT3", param_electricalDemand_In_W[t])
  + OfBuildings("BT4", param_electricalDemand_In_W[t])
  + OfBuildings("BT5", param_electricalDemand_In_W_BT5[t])

param_BigM_Surplus_Negative(t) ==
  OfBuildings("BT2", electricalPower_HP + param_electricalDemand_In_W[t])
  + OfBuildings("BT3", chargingPowerMaximal_EV + param_electricalDemand_In_W[t])
  + OfBuildings("BT4", electricalPower_HP_BT4_MFH + param_electricalDemand_In_W[t])
  + OfBuildings("BT5", chargingPowerMaximal_BAT + param_electricalDemand_In_W_BT5[t])
  + 1000

RESgenerationTotalRule(G_, t) == Con(G_[t] = pvGenerationOfBuildings(t))

PVgenerationTotalRule(V_, t) == Con(V_[t] = pvGenerationOfBuildings(t))

\* CS_, CD_: coefficients of the heat pump (of the BT2 or of the BT4
\* building); EV_: charging power of the EV; P_, D_: charging and
\* discharging power of the battery
electricalPowerTotalRule(L_, CS_, CD_, EV_, P_, D_, t) ==
  Con(L_[t] = OfBuildings("BT2", electricalPower_BT2(CS_, CD_, t))
              + OfBuildings("BT3", electricalPower_BT3(EV_, t))
              + OfBuildings("BT4", electricalPower_BT4(CS_, t))
              + OfBuildings("BT5", electricalPower_BT5(P_, D_, t)))

surplusPowerTotalRule_LoadMinusGeneration(U_, G_, L_, t) == Con(U_[t] = L_[t] - G_[t])

surplusPowerTotalRule(U_, G_, L_, t) == Con(U_[t] = G_[t] - L_[t])

surplusPowerPartsRule(U_, P_, N_, t) == Con(U_[t] = P_[t] - N_[t])

surplusPowerPositiveRule(P_, B_, t) ==
  Con(P_[t] <= B_[t] * param_BigM_Surplus_Positive(t))

surplusPowerNegativeRule_Ungated(N_, B_, t) ==
  Con(N_[t] <= param_BigM_Surplus_Negative(t))

surplusPowerNegativeRule(N_, B_, t) ==
  Con(N_[t] <= (1 - B_[t]) * param_BigM_Surplus_Negative(t))

costsPerTimeSlotRule_Ungated(K_, B_, L_, V_, t) ==
  Con(K_[t] = (L_[t] - V_[t]) * timeResolution_InMinutes * 60
                * param_electricityPrice_In_Cents[t])

costsPerTimeSlotRule(K_, B_, L_, V_, t) ==
  Con(K_[t] = (1 - B_[t]) * (L_[t] - V_[t]) * timeResolution_InMinutes * 60
                * param_electricityPrice_In_Cents[t])

\* the revenue without the factor of the indicator
revenuePerTimeSlotRule_Ungated(R_, B_, L_, V_, t) ==
  Con(R_[t] = (V_[t] - L_[t]) * timeResolution_InMinutes * 60
                * revenueForFeedingBackElecticityIntoTheGrid_CentsPerkWh)

revenuePerTimeSlotRule(R_, B_, L_, V_, t) ==
  Con(R_[t] = B_[t] * (V_[t] - L_[t]) * timeResolution_InMinutes * 60
                * revenueForFeedingBackElecticityIntoTheGrid_CentsPerkWh)

objective_minimizeSurplusPowerRuel(v, P_) == Con(v = SumSeq(P_))

objective_minimizeCostsRule(v, K_, R_) == Con(v = SumSeq(K_) - SumSeq(R_))

objective_maximumLoadRule_1(m, L_, V_, t) == Con(m >= L_[t] - V_[t])

objective_maximumLoadRule_2_Feasible(m, L_, V_, t) == "Feasible"

objective_maximumLoadRule_2(m, L_, V_, t) == Con(m >= V_[t] - L_[t])

assigned_All == Len(variable_surplusPowerTotal)
Complete_All == assigned_All = numberOfTimeSlotsPerWeek

InitPortfolio ==
  /\ numberOfBuildings = OneBuilding("BT4")
  /\ pvPeakOfBuildings = [index \in BuildingIndices |-> 400]
  /\ variable_pvGeneration = [b \in Buildings |-> << >>]
  /\ param_electricalDemand_In_W \in DemandSeries
  /\ param_pvGenerationNominal \in PVNominalSeries
  /\ param_electricityPrice_In_Cents \in PriceSeries
  /\ variable_RESGenerationTotal = << >>
  /\ variable_PVGenerationTotal = << >>
  /\ variable_electricalPowerTotal = << >>
  /\ variable_surplusPowerTotal = << >>
  /\ variable_surplusPowerPositivePart = << >>
  /\ variable_surplusPowerNegativePart = << >>
  /\ variable_help_isSurplusPowerPositive = << >>
  /\ variable_costsPerTimeSlot = << >>
  /\ variable_revenuePerTimeSlot = << >>

NoObjectiveValues ==
  /\ variable_objectiveMaximumLoad = 0
  /\ variable_objectiveSurplusEnergy = 0
  /\ variable_objectiveCosts = 0

\* the PV generation of timeslot t = assigned_PV + 1: of every building
\* and over all buildings
assigned_PV == Len(variable_RESGenerationTotal)

PVSlot ==
  LET t == assigned_PV + 1 IN
  /\ t <= numberOfTimeSlotsPerWeek
  /\ \E g \in GenerationVals :
       LET G_ == Append(variable_RESGenerationTotal, g) IN
       /\ Satisfied(RESgenerationTotalRule(G_, t))
       /\ variable_RESGenerationTotal' = G_
  /\ \E v \in GenerationVals :
       LET V_ == Append(variable_PVGenerationTotal, v) IN
       /\ Satisfied(PVgenerationTotalRule(V_, t))
       /\ variable_PVGenerationTotal' = V_
  /\ \A b \in Buildings : \E x \in GenerationVals :
       Satisfied(PVgenerationTotalRule_BTx(Append(variable_pvGeneration[b], x),
                                           b[1], b[2], t))
  /\ variable_pvGeneration' =
       [b \in Buildings |->
          Append(variable_pvGeneration[b],
                 CHOOSE x \in GenerationVals :
                   Satisfied(PVgenerationTotalRule_BTx(
                               Append(variable_pvGeneration[b], x), b[1], b[2], t)))]
  /\ UNCHANGED << numberOfBuildings, pvPeakOfBuildings, param_pvGenerationNominal >>

\* the load of timeslot t = assigned_PV + 1 over all buildings, given the
\* values of the buildings' variables up to t
LoadSlot ==
  LET t == assigned_PV + 1 IN
  \E l \in LoadVals :
    LET L_ == Append(variable_electricalPowerTotal, l) IN
    /\ Satisfied(electricalPowerTotalRule(
                   L_, variable_heatGenerationCoefficient_SpaceHeating',
                   variable_heatGenerationCoefficient_DHW',
                   variable_currentChargingPowerEV',
                   variable_currentChargingPowerBAT',
                   variable_currentDisChargingPowerBAT', t))
    /\ variable_electricalPowerTotal' = L_

\* the values of timeslot t = assigned_All + 1 of the variables over all
\* buildings, given the coefficients C_ of the BT4 building up to t
PortfolioSlot(C_) ==
  LET t == assigned_All + 1 IN
  /\ t <= numberOfTimeSlotsPerWeek
  /\ PVSlot
  /\ LoadSlot
  /\ \E u \in SignedPowerVals :
       LET U_ == Append(variable_surplusPowerTotal, u) IN
       /\ Satisfied(surplusPowerTotalRule(U_, variable_RESGenerationTotal',
                                          variable_electricalPowerTotal', t))
       /\ variable_surplusPowerTotal' = U_
  /\ \E b \in Binary, p \in PowerVals :
       LET B_ == Append(variable_help_isSurplusPowerPositive, b)
           P_ == Append(variable_surplusPowerPositivePart, p)
       IN
       /\ Satisfied(surplusPowerPositiveRule(P_, B_, t))
       /\ \E n \in PowerVals :
            LET N_ == Append(variable_surplusPowerNegativePart, n) IN
            /\ Satisfied(surplusPowerPartsRule(variable_surplusPowerTotal', P_, N_, t))
            /\ Satisfied(surplusPowerNegativeRule(N_, B_, t))
            /\ variable_surplusPowerNegativePart' = N_
       /\ variable_help_isSurplusPowerPositive' = B_
       /\ variable_surplusPowerPositivePart' = P_
  /\ \E k \in MoneyVals :
       LET K_ == Append(variable_costsPerTimeSlot, k) IN
       /\ Satisfied(costsPerTimeSlotRule(K_, variable_help_isSurplusPowerPositive',
                                         variable_electricalPowerTotal',
                                         variable_PVGenerationTotal', t))
       /\ variable_costsPerTimeSlot' = K_
  /\ \E r \in MoneyVals :
       LET R_ == Append(variable_revenuePerTimeSlot, r) IN
       /\ Satisfied(revenuePerTimeSlotRule(R_, variable_help_isSurplusPowerPositive',
                                           variable_electricalPowerTotal',
                                           variable_PVGenerationTotal', t))
       /\ variable_revenuePerTimeSlot' = R_
  /\ \E m \in (IF t = 1 THEN MaximumLoadVals ELSE {variable_objectiveMaximumLoad}) :
       /\ Satisfied(objective_maximumLoadRule_1(m, variable_electricalPowerTotal',
                                                variable_PVGenerationTotal', t))
       /\ Satisfied(objective_maximumLoadRule_2(m, variable_electricalPowerTotal',
                                                variable_PVGenerationTotal', t))
       /\ variable_objectiveMaximumLoad' = m
  /\ IF t = numberOfTimeSlotsPerWeek
     THEN /\ \E e \in {SumSeq(variable_surplusPowerPositivePart')} :
               /\ Satisfied(objective_minimizeSurplusPowerRuel(
                              e, variable_surplusPowerPositivePart'))
               /\ variable_objectiveSurplusEnergy' = e
          /\ \E c \in { SumSeq(variable_costsPerTimeSlot')
                        - SumSeq(variable_revenuePerTimeSlot') } :
               /\ Satisfied(objective_minimizeCostsRule(
                              c, variable_costsPerTimeSlot',
                              variable_revenuePerTimeSlot'))
               /\ variable_objectiveCosts' = c
     ELSE UNCHANGED << variable_objectiveSurplusEnergy, variable_objectiveCosts >>
  /\ UNCHANGED << param_electricalDemand_In_W, param_electricityPrice_In_Cents >>

(***************************************************************************)
(* The objective.  Weights and the objective's value are fractions         *)
(* << numerator, denominator >>.                                           *)
(***************************************************************************)
RECURSIVE GCD(_, _)
GCD(a, b) == IF b = 0 THEN a ELSE GCD(b, a % b)
Abs(n) == IF n < 0 THEN 0 - n ELSE n
\* the fraction n / d, d > 0, in lowest terms
Lowest(n, d) == LET g == GCD(Abs(n), d) IN << n \div g, d \div g >>
Frac(n) == << n, 1 >>
FracAdd(a, b) == Lowest(a[1] * b[2] + b[1] * a[2], a[2] * b[2])
FracMul(a, b) == Lowest(a[1] * b[1], a[2] * b[2])
FracDiv(a, n) == Lowest(a[1], a[2] * n)
FracEq(a, b) == a[1] * b[2] = b[1] * a[2]

Expression(f) == [kind |-> "expression", value |-> f]
None == [kind |-> "None", value |-> Frac(0)]
NotBuilt == [kind |-> "not built", value |-> Frac(0)]

\* (variable_objectiveSurplusEnergy * timeResolution_InMinutes * 60) / 3600
surplusEnergy_In_Wh ==
  Lowest(variable_objectiveSurplusEnergy * timeResolution_InMinutes * 60, 3600)

objectiveRule_1Objective_Normalized ==
  IF optimizationGoal_minimizeSurplusEnergy
  THEN Expression(FracDiv(surplusEnergy_In_Wh,
                          objective_minimizeSurplusEnergy_normalizationValue))
  ELSE IF optimizationGoal_minimizePeakLoad
  THEN Expression(FracDiv(Frac(variable_objectiveMaximumLoad),
                          objective_minimizePeakLoad_normalizationValue))
  ELSE Expression(FracDiv(Frac(variable_objectiveCosts),
                          objective_minimizeCosts_normalizationValue))

objectiveRule_1Objective ==
  IF optimizationGoal_minimizeSurplusEnergy
  THEN Expression(surplusEnergy_In_Wh)
  ELSE IF optimizationGoal_minimizePeakLoad
  THEN Expression(Frac(variable_objectiveMaximumLoad))
  ELSE Expression(Frac(variable_objectiveCosts))

objectiveRule_SurplusEnergy_PeakLoad ==
  Expression(FracAdd(
    FracMul(objective_minimizePeakLoad_weight,
            FracDiv(Frac(variable_objectiveMaximumLoad),
                    objective_minimizePeakLoad_normalizationValue)),
    FracMul(objective_minimizeSurplusEnergy_weight,
            FracDiv(surplusEnergy_In_Wh,
                    objective_minimizeSurplusEnergy_normalizationValue))))

objectiveRule_SurplusEnergy_Costs ==
  Expression(FracAdd(
    FracMul(objective_minimizeCosts_weight,
            FracDiv(Frac(variable_objectiveCosts),
                    objective_minimizeCosts_normalizationValue)),
    FracMul(objective_minimizeSurplusEnergy_weight,
            FracDiv(surplusEnergy_In_Wh,
                    objective_minimizeSurplusEnergy_normalizationValue))))

objectiveRule_PeakLoad_Costs ==
  Expression(FracAdd(
    FracMul(objective_minimizePeakLoad_weight,
            FracDiv(Frac(variable_objectiveMaximumLoad),
                    objective_minimizePeakLoad_normalizationValue)),
    FracMul(objective_minimizeCosts_weight,
            FracDiv(Frac(variable_objectiveCosts),
                    objective_minimizeSurplusEnergy_normalizationValue))))

objectiveRule_3Objectives ==
  Expression(FracAdd(
    FracAdd(
      FracMul(objective_minimizePeakLoad_weight,
              FracDiv(Frac(variable_objectiveMaximumLoad),
                      objective_minimizePeakLoad_normalizationValue)),
      FracMul(objective_minimizeCosts_weight,
              FracDiv(Frac(variable_objectiveCosts),
                      objective_minimizeSurplusEnergy_normalizationValue))),
    FracMul(objective_minimizeSurplusEnergy_weight,
            FracDiv(surplusEnergy_In_Wh,
                    objective_minimizeSurplusEnergy_normalizationValue))))

objectiveRule_combined_general ==
  IF /\ optimization_1Objective
     /\ \/ optimizationGoal_minimizeSurplusEnergy
        \/ optimizationGoal_minimizePeakLoad
        \/ optimizationGoal_minimizeCosts
  THEN objectiveRule_1Objective
  ELSE IF /\ optimization_2Objective
          /\ optimizationGoal_minimizeSurplusEnergy
          /\ optimizationGoal_minimizePeakLoad
  THEN objectiveRule_SurplusEnergy_PeakLoad
  ELSE IF /\ optimization_2Objective
          /\ optimizationGoal_minimizeSurplusEnergy
          /\ optimizationGoal_minimizeCosts
  THEN objectiveRule_SurplusEnergy_Costs
  ELSE IF /\ optimization_2Objective
          /\ optimizationGoal_minimizePeakLoad
          /\ optimizationGoal_minimizeCosts
  THEN objectiveRule_PeakLoad_Costs
  ELSE IF optimization_3Objectives
  THEN objectiveRule_3Objectives
  ELSE None

InitObjectiveConfig ==
  /\ optimization_1Objective \in BOOLEAN
  /\ optimization_2Objective \in BOOLEAN
  /\ optimization_3Objectives \in BOOLEAN
  /\ optimizationGoal_minimizeSurplusEnergy \in BOOLEAN
  /\ optimizationGoal_minimizePeakLoad \in BOOLEAN
  /\ optimizationGoal_minimizeCosts \in BOOLEAN
  /\ \E w \in WeightVals :
       /\ objective_minimizePeakLoad_weight = w[1]
       /\ objective_minimizeCosts_weight = w[2]
       /\ objective_minimizeSurplusEnergy_weight = w[3]
  /\ objective_minimizePeakLoad_normalizationValue \in NormalizationVals
  /\ objective_minimizeCosts_normalizationValue \in NormalizationVals
  /\ objective_minimizeSurplusEnergy_normalizationValue \in NormalizationVals
  /\ objective_combined_general = NotBuilt

InitObjectiveValues ==
  /\ variable_objectiveMaximumLoad \in ObjectiveVals
  /\ variable_objectiveSurplusEnergy \in ObjectiveVals
  /\ variable_objectiveCosts \in ObjectiveVals

\* model.objective_combined_general = pyo.Objective(rule = ...)
BuildObjective ==
  /\ objective_combined_general = NotBuilt
  /\ objective_combined_general' = objectiveRule_combined_general
  /\ UNCHANGED << vars_objectiveConfig, vars_objectiveValues >>

(***************************************************************************)
(* The parts of the model a specification does not build stay as they are  *)
(* before optimizeOneWeek declares them.                                   *)
(***************************************************************************)
NoHP ==
  /\ buildingType = "none"
  /\ considerMaxiumNumberOfStartsHP_Individual = FALSE
  /\ considerMaximumNumberOfStartsHP_Combined = FALSE
  /\ considerMaxiumNumberOfStartsHP_MFH_Individual = FALSE
  /\ isHPAlwaysSwitchedOn = FALSE
  /\ maximumNumberOfStarts_Individual = 0
  /\ maximumNumberOfStarts_Combined = 0
  /\ param_heatDemand_In_W = << >>
  /\ param_DHWDemand_In_W = << >>
  /\ param_COPHeatPump_SpaceHeating = << >>
  /\ param_COPHeatPump_DHW = << >>
  /\ variable_heatGenerationCoefficient_SpaceHeating = << >>
  /\ variable_heatGenerationCoefficient_DHW = << >>
  /\ variable_help_OnlyOneStorage = << >>
  /\ variable_temperatureBufferStorage = << >>
  /\ variable_usableVolumeDHWTank = << >>
  /\ variable_HPswitchedOff_Individual_SpaceHeating = << >>
  /\ variable_HPswitchedOff_Individual_DHW = << >>
  /\ variable_HPswitchedOff_Combined = << >>
  /\ variable_HPswitchedOff_HelpAssociatedBinary_SpaceHeating = << >>
  /\ variable_HPswitchedOff_HelpAssociatedBinary_DHW = << >>

NoBAT ==
  /\ chargingEfficiency_BAT = 100
  /\ dischargingEfficiency_BAT = 100
  /\ param_electricalDemand_In_W_BT5 = << >>
  /\ variable_currentChargingPowerBAT = << >>
  /\ variable_currentDisChargingPowerBAT = << >>
  /\ variable_helpBinaryChargingPositive = << >>
  /\ variable_energyLevelBAT = << >>
  /\ variable_SOC_BAT = << >>
  /\ variable_electricalPowerTotal_BT5 = << >>

NoEV ==
  /\ param_availabilityPerTimeSlotOfEV = << >>
  /\ param_energyConsumptionEV_Joule = << >>
  /\ variable_currentChargingPowerEV = << >>
  /\ variable_energyLevelEV = << >>
  /\ variable_SOC_EV = << >>

NoPortfolio ==
  /\ pvPeakOfBuildings = [index \in BuildingIndices |-> 400]
  /\ variable_pvGeneration = << >>
  /\ param_electricalDemand_In_W = << >>
  /\ param_pvGenerationNominal = << >>
  /\ param_electricityPrice_In_Cents = << >>
  /\ variable_RESGenerationTotal = << >>
  /\ variable_PVGenerationTotal = << >>
  /\ variable_electricalPowerTotal = << >>
  /\ variable_surplusPowerTotal = << >>
  /\ variable_surplusPowerPositivePart = << >>
  /\ variable_surplusPowerNegativePart = << >>
  /\ variable_help_isSurplusPowerPositive = << >>
  /\ variable_costsPerTimeSlot = << >>
  /\ variable_revenuePerTimeSlot = << >>

NoObjective ==
  /\ optimization_1Objective = FALSE
  /\ optimization_2Objective = FALSE
  /\ optimization_3Objectives = FALSE
  /\ optimizationGoal_minimizeSurplusEnergy = FALSE
  /\ optimizationGoal_minimizePeakLoad = FALSE
  /\ optimizationGoal_minimizeCosts = FALSE
  /\ objective_minimizePeakLoad_weight = Frac(1)
  /\ objective_minimizeCosts_weight = Frac(1)
  /\ objective_minimizeSurplusEnergy_weight = Frac(1)
  /\ objective_minimizePeakLoad_normalizationValue = 1
  /\ objective_minimizeCosts_normalizationValue = 1
  /\ objective_minimizeSurplusEnergy_normalizationValue = 1
  /\ objective_combined_general = NotBuilt

(***************************************************************************)
(* Solving the model and handling the result: optimizeOneWeek from the     *)
(* call of solver.solve to its return.                                     *)
(***************************************************************************)
\* pyomo.opt.SolverStatus and pyomo.opt.TerminationCondition
SolverStatus == {"ok", "warning", "aborted", "error"}
TerminationCondition ==
  {"optimal", "maxTimeLimit", "infeasible", "infeasibleOrUnbounded", "error"}
\* the values the solver loaded into the variables of the model, "none" when
\* it loaded no values
Incumbents == {"none", "flat", "alternating"}

NotSolved ==
  [status |-> "not solved", termination_condition |-> "not solved", incumbent |-> "none"]

\* what solver.solve(model) can hand back: a proven optimum comes with
\* values, a proof of infeasibility comes without
SolverResults ==
  { r \in [status : SolverStatus,
           termination_condition : TerminationCondition,
           incumbent : Incumbents] :
      /\ r.termination_condition = "optimal" => r.incumbent # "none"
      /\ r.termination_condition \in {"infeasible", "infeasibleOrUnbounded"}
            => r.incumbent = "none" }

\* pyo.value(model_item[key]) of a variable of building i at timeslot t
pyo_value(i, t) ==
  IF solution.incumbent = "flat" THEN 100 ELSE ((i + t) % 2) * 100

\* the branch "Result Status: Optimal" is taken
ResultIsOptimal_StatusOk(s) ==
  s.status = "ok" \/ s.termination_condition = "maxTimeLimit"

ResultIsOptimal(s) ==
  \/ (s.status = "ok" /\ s.termination_condition = "optimal")
  \/ s.termination_condition = "maxTimeLimit"

\* np.zeros(0)
np_zeros_0 == << >>

\* the nine vectors of the return statement, in its order, each with the
\* building type whose result frame it is taken from
outputVectors ==
  << [name |-> "heatGenerationCoefficientSpaceHeating_BT1", type |-> "BT1"],
     [name |-> "heatGenerationCoefficientDHW_BT1", type |-> "BT1"],
     [name |-> "chargingPowerEV_BT1", type |-> "BT1"],
     [name |-> "heatGenerationCoefficientSpaceHeating_BT2", type |-> "BT2"],
     [name |-> "heatGenerationCoefficientDHW_BT2", type |-> "BT2"],
     [name |-> "chargingPowerEV_BT3", type |-> "BT3"],
     [name |-> "heatGenerationCoefficientSpaceHeating_BT4", type |-> "BT4"],
     [name |-> "chargingPowerBAT_BT5", type |-> "BT5"],
     [name |-> "dischargingPowerBAT_BT5", type |-> "BT5"] >>

\* results_BTx[column].to_numpy().reshape((numberOfTimeSlotsPerWeek,
\* numberOfBuildings_BTx), order='F'): one row per timeslot, one column per
\* building
outputVector(type) ==
  [t \in set_timeslots |-> [i \in set_buildings(type) |-> pyo_value(i, t)]]

\* the building types whose block "if numberOfBuildings_BTx >= 1" runs
BuildingTypesInScenario == {type \in AllBuildingTypes : numberOfBuildings[type] >= 1}

\* Combined_BTx.csv of every building type of the scenario and
\* Combined_WholeResidentialArea.csv
CombinedFiles ==
  {<< "Combined", type, 0 >> : type \in BuildingTypesInScenario}
    \cup {<< "Combined", "WholeResidentialArea", 0 >>}

\* BTx_Building_<index+1>.csv: Combined_BTx.csv read back in chunks of
\* numberOfTimeSlotsPerWeek rows, one file per chunk
IndividualFiles ==
  {<< "Building", b[1], b[2] >> : b \in Buildings}

NotReturned == [kind |-> "not returned", vectors |-> << >>]
\* pyo.value of a variable without a value raises, the call does not return
Raised == [kind |-> "ValueError", vectors |-> << >>]

\* the return statement: a vector that was assigned (is in locals()) is
\* returned as it is, every other one is np.zeros(0)
returnValue(inLocals) ==
  [kind |-> "returned",
   vectors |-> [k \in 1..Len(outputVectors) |->
                  IF outputVectors[k].type \in inLocals
                  THEN outputVector(outputVectors[k].type)
                  ELSE np_zeros_0]]

(***************************************************************************)
(* ANN.py: the single-timeslot simulation loops of                         *)
(* generateActionsForSingleTimeslotWithANN_SingleBuildingOptScenario.      *)
(* Heat generation coefficients are in thousandths, so that the threshold  *)
(* 0.01 of the loops is 10.                                                *)
(***************************************************************************)
\* the corrected actions the internal controller can return, in [0, 1]
ActionVals == {0, 5, 500}

\* action > 0.01
IsRunning(action) == action > 10

\* the data frames of the week, read by the label of the index 'Timeslot',
\* which runs from 1 to numberOfTimeSlotsPerWeek
list_df_buildingData(label) ==
  [PVGeneration |-> 10 * label,
   heatDemand |-> 1000 + 100 * label,
   DHWDemand |-> 300 + 50 * label,
   electricityDemand |-> 400 + 10 * label,
   availabilityOfTheEV |-> label % 2]

df_outsideTemperatureData(label) == 5 + label

\* the price data the simulated week can have
PriceData ==
  { [label \in set_timeslots |-> 20 + label],
    [label \in set_timeslots |-> 30 - 2 * (label % 3)] }

\* the values of timeslot k in the data frames: the rows of label k + 1
ValuesOfTimeslot(k) ==
  [PVGeneration |-> list_df_buildingData(k + 1).PVGeneration,
   heatDemand |-> list_df_buildingData(k + 1).heatDemand,
   DHWDemand |-> list_df_buildingData(k + 1).DHWDemand,
   electricityDemand |-> list_df_buildingData(k + 1).electricityDemand,
   availabilityOfTheEV |-> list_df_buildingData(k + 1).availabilityOfTheEV,
   outsideTemperature |-> df_outsideTemperatureData(k + 1),
   priceForElectricity_CentsPerkWh |-> df_priceData[k + 1]]

\* the values the state_ variables hold
States ==
  [PVGeneration |-> state_PVGeneration,
   heatDemand |-> state_heatDemand,
   DHWDemand |-> state_DHWDemand,
   electricityDemand |-> state_electricityDemand,
   availabilityOfTheEV |-> state_availabilityOfTheEV,
   outsideTemperature |-> state_outsideTemperature,
   priceForElectricity_CentsPerkWh |-> state_priceForElectricity_CentsPerkWh]

\* the state_ variables the loop of a building type assigns
AssignedStates(type) ==
  CASE type = "BT1" -> {"PVGeneration", "heatDemand", "DHWDemand", "electricityDemand",
                        "availabilityOfTheEV", "outsideTemperature",
                        "priceForElectricity_CentsPerkWh"}
    [] type = "BT2" -> {"PVGeneration", "heatDemand", "DHWDemand", "electricityDemand",
                        "outsideTemperature", "priceForElectricity_CentsPerkWh"}
    [] type = "BT3" -> {"PVGeneration", "electricityDemand", "availabilityOfTheEV",
                        "outsideTemperature", "priceForElectricity_CentsPerkWh"}
    [] type = "BT4" -> {"PVGeneration", "heatDemand", "electricityDemand",
                        "outsideTemperature", "priceForElectricity_CentsPerkWh"}
    [] type = "BT5" -> {"PVGeneration", "electricityDemand", "outsideTemperature",
                        "priceForElectricity_CentsPerkWh"}

\* the state_ variables among the entries of vector_input_features (objective
\* 'Min_Costs'); the vector is modelled by these entries
ExogenousFeatures(type) ==
  IF type = "BT4" THEN {"outsideTemperature"} ELSE AssignedStates(type)

\* vector_input_features = np.array([..., state_PVGeneration, ...])
InputFeatures(type) == [n \in ExogenousFeatures(type) |-> States[n]]

\* no prediction was made
NoFeatures == [n \in {} |-> 0]

\* the price distribution before it is built
NoECDF == {}

\* 1 - ecdf_prices(price - 0.001): the share of the prices of the sample
\* that are not below the price (prices are whole cents)
PriceFactor(sample, price) ==
  [num |-> Cardinality({label \in sample : df_priceData[label] >= price}),
   den |-> Cardinality(sample)]

\* df_priceData.loc[k : k + updatingFrequencyEDFPrices - 1]: the rows whose
\* label lies between the two bounds, both included
electricityTarifCurrentDay(k) ==
  {label \in set_timeslots : k <= label /\ label <= k + updatingFrequencyEDFPrices - 1}

(***************************************************************************)
(* ANN.py: the combined variable of the battery.                           *)
(***************************************************************************)
\* the values a prediction for the battery can have, and the labels of the
\* training data
PredictedVals == {-2, -1, 0, 1, 2}
WeekVals == {-1, 0, 2}
LabelVals == 0..1
TrainingLabels ==
  UNION { [1..n -> [chargingPowerBAT : LabelVals, disChargingPowerBAT : LabelVals]] :
          n \in 1..2 }

\* array_chargingPowerBatCombinedVariable[i] of the training
chargingPowerBatCombinedVariable(chargingPowerBAT, disChargingPowerBAT) ==
  IF chargingPowerBAT >= disChargingPowerBAT
  THEN chargingPowerBAT
  ELSE disChargingPowerBAT * (-1)

actionsOfCombinedVariable_SameSign(x) ==
  IF x >= 0
  THEN [chargingPowerBAT |-> x, disChargingPowerBAT |-> 0]
  ELSE [chargingPowerBAT |-> 0, disChargingPowerBAT |-> x]

\* the charging and the discharging power read from a predicted value
actionsOfCombinedVariable(x) ==
  IF x >= 0
  THEN [chargingPowerBAT |-> x, disChargingPowerBAT |-> 0]
  ELSE [chargingPowerBAT |-> 0, disChargingPowerBAT |-> (-1) * x]

\* none of the functions of ANN.py runs
NoLabels ==
  /\ array_ChargingPowerBat = << >>
  /\ array_disChargingPowerBat = << >>
  /\ array_chargingPowerBatCombinedVariable = << >>
  /\ outputVector_chargingBATCombinedVariable = << >>
  /\ outputVector_chargingBAT = << >>
  /\ outputVector_disChargingBAT = << >>

\* the locals of the single-timeslot function before its loop
InitLoopLocals ==
  /\ iteration = 0
  /\ state_indexCurrentTimeslot = 0
  /\ state_PVGeneration = 0
  /\ state_heatDemand = 0
  /\ state_DHWDemand = 0
  /\ state_electricityDemand = 0
  /\ state_availabilityOfTheEV = 0
  /\ state_outsideTemperature = 0
  /\ state_priceForElectricity_CentsPerkWh = 0
  /\ vector_input_features = NoFeatures
  /\ action_heatCoefficientSpaceHeating = 0
  /\ action_heatCoefficientDHW = 0
  /\ help_actionPreviousTimeSlot_heatCoefficientSpaceHeating = 0
  /\ help_actionPreviousTimeSlot_heatCoefficientDHW = 0
  /\ help_countNumberOfStartHeatPump_Heating_Combined = 0
  /\ helpCounterNumberOfRunningSlots_Combined = 0
  /\ heatPumpIsRunning = 0
  /\ outputVector_heatGenerationCoefficientSpaceHeating = << >>
  /\ outputVector_heatGenerationCoefficientDHW = << >>
  /\ helpCounterTimeSlotsForUpdatingEDFPrices = 0
  /\ ecdf_prices = NoECDF
  /\ priceFactor = [num |-> 0, den |-> 1]
  /\ resultinValueMLMethod = 0
  /\ action_chargingPowerBAT_NotOverruled = 0
  /\ action_disChargingPowerBAT_NotOverruled = 0

NoLoop ==
  /\ InitLoopLocals
  /\ df_priceData = << >>
  /\ updatingFrequencyEDFPrices = 0

NoANN == NoLoop /\ NoLabels

\* no other call runs on the machine
NoCalls ==
  /\ now = 0
  /\ directories = {}
  /\ files = {}
  /\ calls = << >>

\* the model that was built, which solving and result handling leave as it
\* is, and the other calls
vars_Model ==
  << vars_config, vars_HP, vars_BAT, vars_EV, vars_portfolio, vars_objectiveValues,
     vars_objectiveConfig, objective_combined_general, vars_calls, vars_ANN >>

NoSolve ==
  /\ NoCalls
  /\ NoANN
  /\ solution = NotSolved
  /\ results = {}
  /\ resultFiles = {}
  /\ returned = NotReturned

\* solution = solver.solve(model, tee=True)
Solve ==
  /\ solution = NotSolved
  /\ solution' \in SolverResults
  /\ UNCHANGED << results, resultFiles, returned, vars_Model >>

\* the branch "Result Status: Optimal": the result frames are built from the
\* values of the variables, written to the result files, and the vectors of
\* the building types of the scenario are returned
ResultOptimal ==
  /\ solution # NotSolved
  /\ returned = NotReturned
  /\ ResultIsOptimal(solution)
  /\ solution.incumbent # "none"
  /\ results' = BuildingTypesInScenario \cup {"All"}
  /\ resultFiles' = CombinedFiles \cup IndividualFiles
  /\ returned' = returnValue(BuildingTypesInScenario)
  /\ UNCHANGED << solution, vars_Model >>

\* the same branch when the solver stopped at the time limit without values:
\* the first pyo.value of a variable raises before any file is written
ResultWithoutValues ==
  /\ solution # NotSolved
  /\ returned = NotReturned
  /\ ResultIsOptimal(solution)
  /\ solution.incumbent = "none"
  /\ returned' = Raised
  /\ UNCHANGED << solution, results, resultFiles, vars_Model >>

\* the branch "Result Status: Infeasible"
ResultInfeasible ==
  /\ solution # NotSolved
  /\ returned = NotReturned
  /\ ~ResultIsOptimal(solution)
  /\ solution.termination_condition = "infeasible"
  /\ returned' = returnValue({})
  /\ UNCHANGED << solution, results, resultFiles, vars_Model >>

\* the else branch: the solver status is written to the log
ResultSolverStatus ==
  /\ solution # NotSolved
  /\ returned = NotReturned
  /\ ~ResultIsOptimal(solution)
  /\ solution.termination_condition # "infeasible"
  /\ returned' = returnValue({})
  /\ UNCHANGED << solution, results, resultFiles, vars_Model >>

vars_All == << vars_portfolio, vars_objectiveValues >>
vars_Objective == << vars_objectiveConfig, objective_combined_general >>

(***************************************************************************)
(* Spec: one heat-pump building (BT1/BT2 or BT4).                          *)
(***************************************************************************)
Init ==
  /\ InitHP
  /\ numberOfBuildings = OneBuilding(buildingType)
  /\ NoBAT /\ NoEV /\ NoPortfolio /\ NoObjectiveValues /\ NoObjective /\ NoSolve

AssignSlot ==
  HeatPumpSlot /\ UNCHANGED << vars_BAT, vars_EV, vars_All, vars_Objective, vars_solve, vars_calls, vars_ANN >>

Next == AssignSlot

Spec == Init /\ [][Next]_vars

(***************************************************************************)
(* SpecBAT: one battery building (BT5).                                    *)
(***************************************************************************)
InitBT5 ==
  /\ numberOfBuildings = OneBuilding("BT5")
  /\ NoHP /\ InitBAT /\ NoEV /\ NoPortfolio /\ NoObjectiveValues /\ NoObjective /\ NoSolve

AssignSlot_BT5 ==
  BatterySlot /\ UNCHANGED << vars_config, vars_HP, vars_EV, vars_All, vars_Objective,
                            vars_solve, vars_calls, vars_ANN >>

NextBAT == AssignSlot_BT5

SpecBAT == InitBT5 /\ [][NextBAT]_vars

(***************************************************************************)
(* SpecAll: a portfolio of one BT4 building with the equations over all    *)
(* buildings.                                                              *)
(***************************************************************************)
InitAll ==
  /\ InitHP
  /\ buildingType = "BT4"
  /\ ~considerMaxiumNumberOfStartsHP_Individual
  /\ ~considerMaxiumNumberOfStartsHP_MFH_Individual
  /\ ~considerMaximumNumberOfStartsHP_Combined
  /\ ~isHPAlwaysSwitchedOn
  /\ maximumNumberOfStarts_Individual = 1
  /\ NoBAT
  /\ NoEV
  /\ InitPortfolio
  /\ NoObjectiveValues
  /\ NoObjective
  /\ NoSolve

AssignSlot_All ==
  /\ HeatPumpSlot
  /\ PortfolioSlot(variable_heatGenerationCoefficient_SpaceHeating')
  /\ UNCHANGED << vars_BAT, vars_EV, vars_Objective, vars_solve, vars_calls, vars_ANN >>

NextAll == AssignSlot_All

SpecAll == InitAll /\ [][NextAll]_vars

(***************************************************************************)
(* SpecBuildings: a scenario of one building, of the type BT2, BT3, BT4 or *)
(* BT5, with its PV generation and the load over all buildings.            *)
(***************************************************************************)
InitBuildings ==
  \E type \in {"BT2", "BT3", "BT4", "BT5"} :
    /\ numberOfBuildings = OneBuilding(type)
    /\ IF type \in BuildingTypes
       THEN /\ InitHP
            /\ buildingType = type
            /\ ~considerMaxiumNumberOfStartsHP_Individual
            /\ ~considerMaxiumNumberOfStartsHP_MFH_Individual
            /\ ~considerMaximumNumberOfStartsHP_Combined
            /\ ~isHPAlwaysSwitchedOn
            /\ maximumNumberOfStarts_Individual = 1
       ELSE NoHP
    /\ IF type = "BT3" THEN InitEV ELSE NoEV
    /\ IF type = "BT5" THEN InitBAT ELSE NoBAT
    /\ pvPeakOfBuildings = [index \in BuildingIndices |-> 400]
    /\ variable_pvGeneration = [b \in Buildings |-> << >>]
    /\ param_electricalDemand_In_W \in (IF type = "BT5" THEN {<< >>} ELSE DemandSeries)
    /\ param_pvGenerationNominal \in PVNominalSeries
    /\ param_electricityPrice_In_Cents = << >>
    /\ variable_RESGenerationTotal = << >>
    /\ variable_PVGenerationTotal = << >>
    /\ variable_electricalPowerTotal = << >>
    /\ variable_surplusPowerTotal = << >>
    /\ variable_surplusPowerPositivePart = << >>
    /\ variable_surplusPowerNegativePart = << >>
    /\ variable_help_isSurplusPowerPositive = << >>
    /\ variable_costsPerTimeSlot = << >>
    /\ variable_revenuePerTimeSlot = << >>
    /\ NoObjectiveValues
    /\ NoObjective
    /\ NoSolve

\* the PV generation and the load of the timeslot over all buildings
TotalsSlot ==
  /\ PVSlot
  /\ LoadSlot
  /\ UNCHANGED << param_electricalDemand_In_W, param_electricityPrice_In_Cents,
                  variable_surplusPowerTotal,
                  variable_surplusPowerPositivePart, variable_surplusPowerNegativePart,
                  variable_help_isSurplusPowerPositive, variable_costsPerTimeSlot,
                  variable_revenuePerTimeSlot, vars_objectiveValues, vars_Objective,
                  vars_solve, vars_calls, vars_ANN >>

AssignSlot_Buildings_HP ==
  /\ numberOfBuildings["BT2"] + numberOfBuildings["BT4"] >= 1
  /\ HeatPumpSlot
  /\ TotalsSlot
  /\ UNCHANGED << vars_EV, vars_BAT >>

AssignSlot_Buildings_EV ==
  /\ numberOfBuildings["BT3"] >= 1
  /\ EVSlot
  /\ TotalsSlot
  /\ UNCHANGED << vars_config, vars_HP, vars_BAT >>

AssignSlot_Buildings_BAT ==
  /\ numberOfBuildings["BT5"] >= 1
  /\ BatterySlot
  /\ TotalsSlot
  /\ UNCHANGED << vars_config, vars_HP, vars_EV >>

NextBuildings ==
  \/ AssignSlot_Buildings_HP
  \/ AssignSlot_Buildings_EV
  \/ AssignSlot_Buildings_BAT

SpecBuildings == InitBuildings /\ [][NextBuildings]_vars

(***************************************************************************)
(* SpecPV: the PV generation of a scenario with any number of buildings of *)
(* each building type.                                                     *)
(***************************************************************************)
InitPV ==
  /\ NoHP
  /\ NoBAT
  /\ NoEV
  /\ numberOfBuildings \in BuildingCounts
  /\ pvPeakOfBuildings \in PVPeaks
  /\ variable_pvGeneration = [b \in Buildings |-> << >>]
  /\ param_electricalDemand_In_W = << >>
  /\ param_pvGenerationNominal \in PVNominalSeries
  /\ param_electricityPrice_In_Cents = << >>
  /\ variable_RESGenerationTotal = << >>
  /\ variable_PVGenerationTotal = << >>
  /\ variable_electricalPowerTotal = << >>
  /\ variable_surplusPowerTotal = << >>
  /\ variable_surplusPowerPositivePart = << >>
  /\ variable_surplusPowerNegativePart = << >>
  /\ variable_help_isSurplusPowerPositive = << >>
  /\ variable_costsPerTimeSlot = << >>
  /\ variable_revenuePerTimeSlot = << >>
  /\ NoObjectiveValues
  /\ NoObjective
  /\ NoSolve

AssignSlot_PV ==
  /\ PVSlot
  /\ UNCHANGED << vars_config, vars_HP, vars_BAT, vars_EV, vars_objectiveValues, vars_Objective,
                  param_electricalDemand_In_W, param_electricityPrice_In_Cents,
                  variable_electricalPowerTotal, variable_surplusPowerTotal,
                  variable_surplusPowerPositivePart, variable_surplusPowerNegativePart,
                  variable_help_isSurplusPowerPositive, variable_costsPerTimeSlot,
                  variable_revenuePerTimeSlot, vars_solve, vars_calls, vars_ANN >>

NextPV == AssignSlot_PV

SpecPV == InitPV /\ [][NextPV]_vars

(***************************************************************************)
(* SpecObjective: the objective built from a configuration of              *)
(* Run_Simulations, over values of the three objective variables.          *)
(***************************************************************************)
InitObjective ==
  /\ numberOfBuildings = OneBuilding("none")
  /\ NoHP /\ NoBAT /\ NoEV /\ NoPortfolio
  /\ InitObjectiveValues /\ InitObjectiveConfig
  /\ NoSolve

BuildObjective_General ==
  BuildObjective /\ UNCHANGED << vars_config, vars_HP, vars_BAT, vars_EV, vars_portfolio,
                               vars_solve, vars_calls, vars_ANN >>

NextObjective == BuildObjective_General

SpecObjective == InitObjective /\ [][NextObjective]_vars

(***************************************************************************)
(* SpecSolve: one call of optimizeOneWeek from solver.solve to the return, *)
(* for a scenario with any number of buildings of each building type.      *)
(***************************************************************************)
InitSolve ==
  /\ numberOfBuildings \in BuildingCounts
  /\ NoHP /\ NoBAT /\ NoEV /\ NoPortfolio /\ NoObjectiveValues /\ NoObjective
  /\ NoSolve

NextSolve ==
  \/ Solve
  \/ ResultOptimal
  \/ ResultWithoutValues
  \/ ResultInfeasible
  \/ ResultSolverStatus

SpecSolve == InitSolve /\ [][NextSolve]_vars

(***************************************************************************)
(* SpecCalls: two calls of optimizeOneWeek that run concurrently in        *)
(* separate processes on one machine, each with the scenario of its own    *)
(* process.  A call is interleaved with the other one where it sleeps or   *)
(* waits for the solver.                                                   *)
(***************************************************************************)
\* seconds of the clock of the machine
MaxClock == 2

Processes == {1, 2}

\* SetUpScenarios.numberOfBuildings_BTx in the process of a call
CallScenarios ==
  { c \in BuildingCounts :
      /\ c["BT3"] = 0 /\ c["BT4"] = 0 /\ c["BT5"] = 0
      /\ c["BT1"] + c["BT2"] >= 1 }

numberOfBuildings_Total(c) == c["BT1"] + c["BT2"] + c["BT3"] + c["BT4"] + c["BT5"]

\* datetime.today().strftime('%d_%m_%Y_Time_%H_%M_%S'): the clock, to the second
currentDatetimeString == now

\* config.DIR_RESULTS_CENTRALIZED_OPTIMIZATION + currentDatetimeString
\*   + "_BTCombined_" + str(SetUpScenarios.numberOfBuildings_Total)
folderPath(c) == << currentDatetimeString, numberOfBuildings_Total(c) >>

NoFolder == << >>

filePath_BTx(folder, type) == << folder, "Combined", type, 0 >>
filePath_All(folder) == << folder, "Combined", "WholeResidentialArea", 0 >>
filePath_Individual(folder, type, index) == << folder, "Building", type, index + 1 >>

\* the building types of a scenario c whose block "if numberOfBuildings_BTx >= 1" runs
TypesOf(c) == {type \in AllBuildingTypes : c[type] >= 1}

\* the file that dataframe.to_csv(path) leaves: the process that wrote it, the
\* call whose results it holds, and its number of rows
csv(path, p, from, rows) == [path |-> path, writer |-> p, data |-> from, rows |-> rows]

\* the file system after the files of the set written are written: a file
\* with the path of a written one is replaced
to_csv(written) ==
  {f \in files : \A w \in written : w.path # f.path} \cup written

\* the file of the file system at a path
read_csv(path) == CHOOSE f \in files : f.path = path

\* list(pd.read_csv(path, chunksize=numberOfTimeSlotsPerWeek)): the number of
\* chunks of the file read
NumberOfChunks(f) == (f.rows + numberOfTimeSlotsPerWeek - 1) \div numberOfTimeSlotsPerWeek

InitCalls ==
  /\ numberOfBuildings = OneBuilding("none")
  /\ NoHP /\ NoBAT /\ NoEV /\ NoPortfolio /\ NoObjectiveValues /\ NoObjective
  /\ solution = NotSolved
  /\ results = {}
  /\ resultFiles = {}
  /\ returned = NotReturned
  /\ NoANN
  /\ now = 0
  /\ directories = {}
  /\ files = {}
  /\ \E c1 \in CallScenarios, c2 \in CallScenarios :
       calls = [p \in Processes |->
                  [pc |-> "start",
                   numberOfBuildings |-> IF p = 1 THEN c1 ELSE c2,
                   folderPath |-> NoFolder,
                   readFrom |-> {}]]

vars_OneCall ==
  << vars_config, vars_HP, vars_BAT, vars_EV, vars_portfolio, vars_objectiveValues,
     vars_objectiveConfig, objective_combined_general, vars_solve, vars_ANN >>

\* a second passes
Tick ==
  /\ now < MaxClock
  /\ now' = now + 1
  /\ UNCHANGED << directories, files, calls, vars_OneCall >>

\* lines 59-71: the result directory is named and created; when it exists
\* already, os.makedirs raises OSError, which is logged, and the call goes on
CreateDirectory(p) ==
  /\ calls[p].pc = "start"
  /\ directories' = directories \cup {folderPath(calls[p].numberOfBuildings)}
  /\ calls' = [calls EXCEPT ![p].pc = "created",
                            ![p].folderPath = folderPath(calls[p].numberOfBuildings)]
  /\ UNCHANGED << now, files, vars_OneCall >>

\* lines 74-1881: the model is built and solved; in the branch "Result
\* Status: Optimal" the frames of the building types and of the residential
\* area are written to the Combined files
WriteCombined(p) ==
  /\ calls[p].pc = "created"
  /\ \E optimal \in BOOLEAN :
       IF optimal
       THEN /\ files' =
                 to_csv({csv(filePath_BTx(calls[p].folderPath, type), p, p,
                             numberOfTimeSlotsPerWeek * calls[p].numberOfBuildings[type]) :
                           type \in TypesOf(calls[p].numberOfBuildings)}
                        \cup {csv(filePath_All(calls[p].folderPath), p, p,
                                  numberOfTimeSlotsPerWeek)})
            /\ calls' = [calls EXCEPT ![p].pc = "written"]
       ELSE /\ files' = files
            /\ calls' = [calls EXCEPT ![p].pc = "returned"]
  /\ UNCHANGED << now, directories, vars_OneCall >>

\* lines 1886-1990: after the sleep every Combined_BTx.csv of the scenario is
\* read back in chunks and every chunk is written to BTx_Building_<n>.csv
SplitCombined(p) ==
  /\ calls[p].pc = "written"
  /\ files' =
       to_csv({csv(filePath_Individual(calls[p].folderPath, b[1], b[2]), p,
                   read_csv(filePath_BTx(calls[p].folderPath, b[1])).data,
                   numberOfTimeSlotsPerWeek) :
                 b \in {x \in AllBuildingTypes \X (0..(MaxBuildings - 1)) :
                          /\ x[1] \in TypesOf(calls[p].numberOfBuildings)
                          /\ x[2] < NumberOfChunks(read_csv(filePath_BTx(calls[p].folderPath,
                                                                          x[1])))}})
  /\ calls' = [calls EXCEPT
                 ![p].pc = "returned",
                 ![p].readFrom = {read_csv(filePath_BTx(calls[p].folderPath, type)).data :
                                    type \in TypesOf(calls[p].numberOfBuildings)}]
  /\ UNCHANGED << now, directories, vars_OneCall >>

NextCalls ==
  \/ Tick
  \/ \E p \in Processes : CreateDirectory(p)
  \/ \E p \in Processes : WriteCombined(p)
  \/ \E p \in Processes : SplitCombined(p)

SpecCalls == InitCalls /\ [][NextCalls]_vars

(***************************************************************************)
(* SpecLoop: the single-timeslot loop of ANN.py for one building of a      *)
(* type, over the price data of the week, the frequency of the price       *)
(* distribution and the actions the internal controller returns.  The      *)
(* controller (ICSimulation) returns corrected actions in [0, 1] and the   *)
(* counters it was given.                                                  *)
(***************************************************************************)
\* the optimization problem, which ANN.py leaves as it is
vars_Optimization ==
  << vars_config, vars_HP, vars_BAT, vars_EV, vars_portfolio, vars_objectiveValues,
     vars_objectiveConfig, objective_combined_general, vars_solve, vars_calls >>

NoOptimization ==
  /\ NoHP /\ NoBAT /\ NoEV /\ NoPortfolio /\ NoObjectiveValues /\ NoObjective
  /\ NoCalls
  /\ solution = NotSolved
  /\ results = {}
  /\ resultFiles = {}
  /\ returned = NotReturned

InitLoop ==
  /\ \E type \in AllBuildingTypes : numberOfBuildings = OneBuilding(type)
  /\ NoOptimization
  /\ NoLabels
  /\ InitLoopLocals
  /\ df_priceData \in PriceData
  /\ IF numberOfBuildings["BT4"] = 1
     THEN \E timeResolution \in {480, 720} :
            updatingFrequencyEDFPrices = 1440 \div timeResolution
     ELSE updatingFrequencyEDFPrices = 0

\* state_PVGeneration = list_df_buildingData_BTx[...]['PV [nominal]'][k + 1], ...
AssignStates(type, k) ==
  LET assign(n, old) == IF n \in AssignedStates(type) THEN ValuesOfTimeslot(k)[n] ELSE old
  IN /\ state_PVGeneration' = assign("PVGeneration", state_PVGeneration)
     /\ state_heatDemand' = assign("heatDemand", state_heatDemand)
     /\ state_DHWDemand' = assign("DHWDemand", state_DHWDemand)
     /\ state_electricityDemand' = assign("electricityDemand", state_electricityDemand)
     /\ state_availabilityOfTheEV' = assign("availabilityOfTheEV", state_availabilityOfTheEV)
     /\ state_outsideTemperature' = assign("outsideTemperature", state_outsideTemperature)
     /\ state_priceForElectricity_CentsPerkWh' =
          assign("priceForElectricity_CentsPerkWh", state_priceForElectricity_CentsPerkWh)

\* BT1, BT2: the corrected actions of the slot, the start counter, the
\* actions of the previous slot, the running counter, heatPumpIsRunning and
\* the output vectors
HeatPumpCounters(sh, dhw) ==
  /\ action_heatCoefficientSpaceHeating' = sh
  /\ action_heatCoefficientDHW' = dhw
  /\ help_countNumberOfStartHeatPump_Heating_Combined' =
       IF /\ help_actionPreviousTimeSlot_heatCoefficientSpaceHeating = 0
          /\ help_actionPreviousTimeSlot_heatCoefficientDHW = 0
          /\ IsRunning(sh) \/ IsRunning(dhw)
       THEN help_countNumberOfStartHeatPump_Heating_Combined + 1
       ELSE help_countNumberOfStartHeatPump_Heating_Combined
  /\ help_actionPreviousTimeSlot_heatCoefficientSpaceHeating' = sh
  /\ help_actionPreviousTimeSlot_heatCoefficientDHW' = dhw
  /\ helpCounterNumberOfRunningSlots_Combined' =
       IF IsRunning(sh) \/ IsRunning(dhw)
       THEN helpCounterNumberOfRunningSlots_Combined + 1
       ELSE 0
  /\ heatPumpIsRunning' = IF helpCounterNumberOfRunningSlots_Combined' > 0 THEN 1 ELSE 0
  /\ outputVector_heatGenerationCoefficientSpaceHeating' =
       Append(outputVector_heatGenerationCoefficientSpaceHeating, sh)
  /\ outputVector_heatGenerationCoefficientDHW' =
       Append(outputVector_heatGenerationCoefficientDHW, dhw)

\* BT4: the same for the heat pump that serves the space heating only
HeatPumpCounters_BT4(sh) ==
  /\ action_heatCoefficientSpaceHeating' = sh
  /\ help_countNumberOfStartHeatPump_Heating_Combined' =
       IF /\ help_actionPreviousTimeSlot_heatCoefficientSpaceHeating = 0
          /\ IsRunning(sh)
       THEN help_countNumberOfStartHeatPump_Heating_Combined + 1
       ELSE help_countNumberOfStartHeatPump_Heating_Combined
  /\ help_actionPreviousTimeSlot_heatCoefficientSpaceHeating' = sh
  /\ helpCounterNumberOfRunningSlots_Combined' =
       IF IsRunning(sh) THEN helpCounterNumberOfRunningSlots_Combined + 1 ELSE 0
  /\ heatPumpIsRunning' = IF helpCounterNumberOfRunningSlots_Combined' > 0 THEN 1 ELSE 0
  /\ outputVector_heatGenerationCoefficientSpaceHeating' =
       Append(outputVector_heatGenerationCoefficientSpaceHeating, sh)
  /\ UNCHANGED << action_heatCoefficientDHW, help_actionPreviousTimeSlot_heatCoefficientDHW,
                  outputVector_heatGenerationCoefficientDHW >>

\* BT4: the counter of the price distribution, the distribution, which is
\* rebuilt from the prices of the day, and the price factor of the slot
UpdateECDF(k) ==
  LET counter == helpCounterTimeSlotsForUpdatingEDFPrices + 1
      update == k = 0 \/ counter >= updatingFrequencyEDFPrices
      sample == IF update THEN electricityTarifCurrentDay(k) ELSE ecdf_prices
  IN /\ ecdf_prices' = sample
     /\ priceFactor' = PriceFactor(sample, df_priceData[k + 1])
     /\ helpCounterTimeSlotsForUpdatingEDFPrices' = IF update THEN 0 ELSE counter
     /\ UNCHANGED updatingFrequencyEDFPrices

\* one pass of the loop of a building type begins
Pass(type) ==
  /\ numberOfBuildings[type] = 1
  /\ iteration < numberOfTimeSlotsPerWeek
  /\ state_indexCurrentTimeslot' = iteration
  /\ iteration' = iteration + 1
  /\ UNCHANGED << df_priceData, vars_labels, vars_Optimization >>

SimulateTimeSlot_BT1 ==
  /\ Pass("BT1")
  /\ AssignStates("BT1", iteration)
  /\ vector_input_features' = InputFeatures("BT1")'
  /\ \E sh \in ActionVals, dhw \in ActionVals : HeatPumpCounters(sh, dhw)
  /\ UNCHANGED << vars_ecdf, vars_battery >>

SimulateTimeSlot_BT2 ==
  /\ Pass("BT2")
  /\ vector_input_features' = InputFeatures("BT2")
  /\ AssignStates("BT2", iteration)
  /\ \E sh \in ActionVals, dhw \in ActionVals : HeatPumpCounters(sh, dhw)
  /\ UNCHANGED << vars_ecdf, vars_battery >>

SimulateTimeSlot_BT3 ==
  /\ Pass("BT3")
  /\ vector_input_features' = InputFeatures("BT3")
  /\ AssignStates("BT3", iteration)
  /\ UNCHANGED << vars_heatPump, vars_ecdf, vars_battery >>

SimulateTimeSlot_BT4 ==
  /\ Pass("BT4")
  /\ AssignStates("BT4", iteration)
  /\ UpdateECDF(iteration)
  /\ vector_input_features' = InputFeatures("BT4")'
  /\ \E sh \in ActionVals : HeatPumpCounters_BT4(sh)
  /\ UNCHANGED vars_battery

\* resultinValueMLMethod = vector_output_labels[0][0], and the actions read
\* from it, which are kept as the actions not overruled
AssignActions_BT5(x) ==
  /\ resultinValueMLMethod' = x
  /\ action_chargingPowerBAT_NotOverruled' = actionsOfCombinedVariable(x).chargingPowerBAT
  /\ action_disChargingPowerBAT_NotOverruled' = actionsOfCombinedVariable(x).disChargingPowerBAT

SimulateTimeSlot_BT5 ==
  /\ Pass("BT5")
  /\ vector_input_features' = InputFeatures("BT5")
  /\ \E x \in PredictedVals : AssignActions_BT5(x)
  /\ AssignStates("BT5", iteration)
  /\ UNCHANGED << vars_heatPump, vars_ecdf >>

NextLoop ==
  \/ SimulateTimeSlot_BT1
  \/ SimulateTimeSlot_BT2
  \/ SimulateTimeSlot_BT3
  \/ SimulateTimeSlot_BT4
  \/ SimulateTimeSlot_BT5

SpecLoop == InitLoop /\ [][NextLoop]_vars

(***************************************************************************)
(* SpecLabels: the combined variable of the battery in ANN.py.  The        *)
(* training builds it from the charging and discharging power of the       *)
(* training data; afterwards the two prediction functions read the two     *)
(* powers from a predicted value: the single-timeslot function for one     *)
(* slot, the multi-timeslot function for the whole week.                   *)
(***************************************************************************)
InitLabels ==
  /\ numberOfBuildings = OneBuilding("BT5")
  /\ NoOptimization
  /\ NoLoop
  /\ \E labels \in TrainingLabels :
       /\ array_ChargingPowerBat = [i \in DOMAIN labels |-> labels[i].chargingPowerBAT]
       /\ array_disChargingPowerBat = [i \in DOMAIN labels |-> labels[i].disChargingPowerBAT]
  /\ array_chargingPowerBatCombinedVariable = << >>
  /\ outputVector_chargingBATCombinedVariable = << >>
  /\ outputVector_chargingBAT = << >>
  /\ outputVector_disChargingBAT = << >>

Trained == Len(array_chargingPowerBatCombinedVariable) = Len(array_disChargingPowerBat)

\* for i in range(0, len(array_disChargingPowerBat)): one pass
CreateCombinedVariable ==
  /\ ~Trained
  /\ LET i == Len(array_chargingPowerBatCombinedVariable) + 1
     IN array_chargingPowerBatCombinedVariable' =
          Append(array_chargingPowerBatCombinedVariable,
                 chargingPowerBatCombinedVariable(array_ChargingPowerBat[i],
                                                  array_disChargingPowerBat[i]))
  /\ UNCHANGED << array_ChargingPowerBat, array_disChargingPowerBat,
                  outputVector_chargingBATCombinedVariable, outputVector_chargingBAT,
                  outputVector_disChargingBAT, vars_loop, vars_Optimization >>

\* the single-timeslot function reads the actions of a slot
PredictTimeSlot ==
  /\ Trained
  /\ \E x \in PredictedVals : AssignActions_BT5(x)
  /\ UNCHANGED << iteration, state_indexCurrentTimeslot, df_priceData, vars_state,
                  vector_input_features, vars_heatPump, vars_ecdf, vars_labels,
                  vars_Optimization >>

\* the multi-timeslot function predicts the combined variable of the week
PredictWeek ==
  /\ Trained
  /\ outputVector_chargingBATCombinedVariable = << >>
  /\ outputVector_chargingBATCombinedVariable' \in [set_timeslots -> WeekVals]
  /\ UNCHANGED << array_ChargingPowerBat, array_disChargingPowerBat,
                  array_chargingPowerBatCombinedVariable, outputVector_chargingBAT,
                  outputVector_disChargingBAT, vars_loop, vars_Optimization >>

\* for i in range(0, len(outputVector_chargingBAT)): one pass
DecodeWeek ==
  /\ Len(outputVector_chargingBAT) < Len(outputVector_chargingBATCombinedVariable)
  /\ LET i == Len(outputVector_chargingBAT) + 1
         x == outputVector_chargingBATCombinedVariable[i]
     IN /\ outputVector_chargingBAT' =
             Append(outputVector_chargingBAT, actionsOfCombinedVariable(x).chargingPowerBAT)
        /\ outputVector_disChargingBAT' =
             Append(outputVector_disChargingBAT,
                    actionsOfCombinedVariable(x).disChargingPowerBAT)
  /\ UNCHANGED << array_ChargingPowerBat, array_disChargingPowerBat,
                  array_chargingPowerBatCombinedVariable,
                  outputVector_chargingBATCombinedVariable, vars_loop, vars_Optimization >>

NextLabels ==
  \/ CreateCombinedVariable
  \/ PredictTimeSlot
  \/ PredictWeek
  \/ DecodeWeek

SpecLabels == InitLabels /\ [][NextLabels]_vars

(***************************************************************************)
(* Duty cycles.  A sink runs in a timeslot when its coefficient is > 0.    *)
(***************************************************************************)
\* timeslots t >= 2 at which the sink runs at t-1 and not at t
OnToOff(R_) == Cardinality({t \in 2..Len(R_) : R_[t - 1] > 0 /\ R_[t] = 0})
\* timeslots t >= 2 at which the sink does not run at t-1 and runs at t
OffToOn(R_) == Cardinality({t \in 2..Len(R_) : R_[t - 1] = 0 /\ R_[t] > 0})
\* maximal runs of consecutive running timeslots
Runs(R_) ==
  Cardinality({t \in 1..Len(R_) : R_[t] > 0 /\ (t = Len(R_) \/ R_[t + 1] = 0)})

\* C1: in every assignment that satisfies onlyOneStorage_1 and _2, the
\* space-heating and the DHW coefficient of a timeslot are never both > 0.
C1_OnlyOneStorage ==
  HasDHW =>
    \A t \in 1..assigned :
      ~ ( variable_heatGenerationCoefficient_SpaceHeating[t] > 0
          /\ variable_heatGenerationCoefficient_DHW[t] > 0 )

\* a complete assignment in which each of the two sinks is served
C1_Witness ==
  /\ HasDHW
  /\ Complete
  /\ \E t \in 1..assigned : variable_heatGenerationCoefficient_SpaceHeating[t] > 0
  /\ \E t \in 1..assigned : variable_heatGenerationCoefficient_DHW[t] > 0

C4_StartsCapped ==
  (considerIndividual /\ Complete) =>
    /\ OffToOn(variable_heatGenerationCoefficient_SpaceHeating)
         <= maximumNumberOfStarts_Individual
    /\ HasDHW =>
         OffToOn(variable_heatGenerationCoefficient_DHW)
           <= maximumNumberOfStarts_Individual

\* C5 (as stated): in every solution, for every timeslot t exactly one of
\* surplusPowerPositivePart[t] and surplusPowerNegativePart[t] is non-zero.
C5_Original ==
  \A t \in 1..assigned_All :
    (variable_surplusPowerPositivePart[t] # 0)
      # (variable_surplusPowerNegativePart[t] # 0)

\* C5: in every solution, for every timeslot t at most one of
\* surplusPowerPositivePart[t] and surplusPowerNegativePart[t] is non-zero,
\* and both are zero exactly when the surplus of t is zero.
C5_AtMostOnePartNonZero ==
  \A t \in 1..assigned_All :
    /\ ~ ( variable_surplusPowerPositivePart[t] # 0
           /\ variable_surplusPowerNegativePart[t] # 0 )
    /\ ( variable_surplusPowerPositivePart[t] = 0
         /\ variable_surplusPowerNegativePart[t] = 0 )
         <=> variable_surplusPowerTotal[t] = 0

C5_Witness ==
  /\ Complete_All
  /\ \E t \in set_timeslots :
       /\ variable_surplusPowerTotal[t] = 0
       /\ variable_surplusPowerPositivePart[t] = 0
       /\ variable_surplusPowerNegativePart[t] = 0
  /\ \E t \in set_timeslots : variable_surplusPowerPositivePart[t] > 0
  /\ \E t \in set_timeslots : variable_surplusPowerNegativePart[t] > 0

\* C6: in every solution and for every timeslot t, at most one of
\* costsPerTimeSlot[t] and revenuePerTimeSlot[t] is non-zero;
\* costsPerTimeSlot[t] is non-zero only when the surplus of t is negative and
\* revenuePerTimeSlot[t] is non-zero only when the surplus of t is >= 0.
C6_CostsOrRevenue ==
  \A t \in 1..assigned_All :
    /\ ~ (variable_costsPerTimeSlot[t] # 0 /\ variable_revenuePerTimeSlot[t] # 0)
    /\ variable_costsPerTimeSlot[t] # 0 => variable_surplusPowerTotal[t] < 0
    /\ variable_revenuePerTimeSlot[t] # 0 => variable_surplusPowerTotal[t] >= 0

C6_Witness ==
  /\ Complete_All
  /\ \E t \in set_timeslots :
       variable_costsPerTimeSlot[t] # 0 /\ variable_revenuePerTimeSlot[t] = 0
  /\ \E t \in set_timeslots :
       variable_revenuePerTimeSlot[t] # 0 /\ variable_costsPerTimeSlot[t] = 0

(***************************************************************************)
(* The documented objective: each term multiplied by its own weight and    *)
(* divided by its own normalization value.                                 *)
(***************************************************************************)
NormalizedPeakLoad ==
  FracDiv(Frac(variable_objectiveMaximumLoad),
          objective_minimizePeakLoad_normalizationValue)

NormalizedCosts ==
  FracDiv(Frac(variable_objectiveCosts), objective_minimizeCosts_normalizationValue)

NormalizedSurplusEnergy ==
  FracDiv(surplusEnergy_In_Wh, objective_minimizeSurplusEnergy_normalizationValue)

WeightedSum(peak, costs, surplus) ==
  FracAdd(FracAdd(
    IF peak THEN FracMul(objective_minimizePeakLoad_weight, NormalizedPeakLoad)
            ELSE Frac(0),
    IF costs THEN FracMul(objective_minimizeCosts_weight, NormalizedCosts)
             ELSE Frac(0)),
    IF surplus THEN FracMul(objective_minimizeSurplusEnergy_weight,
                            NormalizedSurplusEnergy)
               ELSE Frac(0))

NumberOfGoals ==
  Cardinality({ g \in { << 1, optimizationGoal_minimizeSurplusEnergy >>,
                        << 2, optimizationGoal_minimizePeakLoad >>,
                        << 3, optimizationGoal_minimizeCosts >> } : g[2] })

DualObjectiveMode ==
  /\ optimization_2Objective
  /\ ~optimization_1Objective
  /\ ~optimization_3Objectives
  /\ NumberOfGoals = 2

TripleObjectiveMode ==
  /\ optimization_3Objectives
  /\ ~optimization_1Objective
  /\ ~optimization_2Objective
  /\ NumberOfGoals = 3

SingleObjectiveMode ==
  /\ optimization_1Objective
  /\ ~optimization_2Objective
  /\ ~optimization_3Objectives
  /\ NumberOfGoals = 1

\* C7: in dual-objective and triple-objective mode the objective returned by
\* objectiveRule_combined_general is the weighted sum in which each active
\* term (peak load, net cost, surplus energy in Wh) is multiplied by its own
\* weight and divided by its own normalization value.
C7_OwnNormalization ==
  (objective_combined_general # NotBuilt
     /\ (DualObjectiveMode \/ TripleObjectiveMode))
  => /\ objective_combined_general.kind = "expression"
     /\ FracEq(objective_combined_general.value,
               WeightedSum(optimizationGoal_minimizePeakLoad,
                           optimizationGoal_minimizeCosts,
                           optimizationGoal_minimizeSurplusEnergy))

RECURSIVE ReplayBuffer(_)
ReplayBuffer(t) ==
  IF t = 0
  THEN 100 * bufferMass * initialBufferStorageTemperature
  ELSE ReplayBuffer(t - 1)
         + ( variable_heatGenerationCoefficient_SpaceHeating[t]
               * param_COPHeatPump_SpaceHeating[t] * ratedPower
               * timeResolution_InMinutes * 60
             - 100 * param_heatDemand_In_W[t] * timeResolution_InMinutes * 60
             - 100 * bufferLosses * timeResolution_InMinutes * 60 )

RECURSIVE ReplayDHWTank(_)
ReplayDHWTank(t) ==
  IF t = 0
  THEN 100 * thermalMassDHWTank * initialUsableVolumeDHWTank
  ELSE ReplayDHWTank(t - 1)
         + ( variable_heatGenerationCoefficient_DHW[t]
               * param_COPHeatPump_DHW[t] * electricalPower_HP
               * timeResolution_InMinutes * 60
             - 100 * param_DHWDemand_In_W[t] * timeResolution_InMinutes * 60
             - 100 * standingLossesDHWTank * timeResolution_InMinutes * 60 )

\* C9: for a fixed schedule of coefficients and fixed demand and COP
\* series, the trajectory the storage constraints admit is the forward
\* replay state[1] = initialValue + d(1), state[t] = state[t-1] + d(t).
C9_TrajectoryIsReplay ==
  \A t \in 1..assigned :
    /\ 100 * bufferMass * variable_temperatureBufferStorage[t] = ReplayBuffer(t)
    /\ HasDHW =>
         100 * thermalMassDHWTank * variable_usableVolumeDHWTank[t] = ReplayDHWTank(t)

\* a complete trajectory that rises and falls, for both storages
C9_Witness ==
  /\ HasDHW
  /\ Complete
  /\ \E t \in 2..assigned :
       variable_temperatureBufferStorage[t] > variable_temperatureBufferStorage[t - 1]
  /\ \E t \in 2..assigned :
       variable_temperatureBufferStorage[t] < variable_temperatureBufferStorage[t - 1]
  /\ \E t \in 2..assigned :
       variable_usableVolumeDHWTank[t] > variable_usableVolumeDHWTank[t - 1]
  /\ variable_temperatureBufferStorage[1] # initialBufferStorageTemperature

\* C10: for every timeslot t, t = 1 included (where energyLevel[t-1] is the
\* initial level initialSOC_BAT/100 * capacity), the battery energy level
\* follows energyLevel[t] = energyLevel[t-1] + (chargePower[t] *
\* chargingEfficiency - dischargePower[t] / dischargingEfficiency) * dt.
C10_DischargeByDischargingEfficiency ==
  \A t \in 1..assigned_BT5 :
    100 * dischargingEfficiency_BAT * variable_energyLevelBAT[t]
      = 100 * dischargingEfficiency_BAT
            * (IF t = 1
               THEN (initialSOC_BAT * capacityMaximal_BAT) \div 100
               ELSE variable_energyLevelBAT[t - 1])
        + ( variable_currentChargingPowerBAT[t] * chargingEfficiency_BAT
              * dischargingEfficiency_BAT
            - variable_currentDisChargingPowerBAT[t] * 10000 )
          * timeResolution_InMinutes * 60

\* C11: in every feasible assignment no BT5 battery has both charging power
\* > 0 and discharging power > 0 in the same timeslot.
C11_ChargeOrDischarge ==
  \A t \in 1..assigned_BT5 :
    ~ ( variable_currentChargingPowerBAT[t] > 0
        /\ variable_currentDisChargingPowerBAT[t] > 0 )

C11_Witness ==
  /\ Complete_BT5
  /\ \E t \in set_timeslots : variable_currentChargingPowerBAT[t] > 0
  /\ \E t \in set_timeslots : variable_currentDisChargingPowerBAT[t] > 0

\* C12: in every feasible assignment the discharging power of a BT5 battery
\* at timeslot t is at most the building's electrical demand at t, so the
\* building's total electrical power (charge - discharge + demand) is never
\* negative.
C12_NoFeedingFromBattery ==
  \A t \in 1..assigned_BT5 :
    /\ variable_currentDisChargingPowerBAT[t] <= param_electricalDemand_In_W_BT5[t]
    /\ variable_electricalPowerTotal_BT5[t]
         = variable_currentChargingPowerBAT[t]
           - variable_currentDisChargingPowerBAT[t]
           + param_electricalDemand_In_W_BT5[t]
    /\ variable_electricalPowerTotal_BT5[t] >= 0

C12_Witness ==
  /\ Complete_BT5
  /\ \E t \in set_timeslots :
       /\ variable_currentDisChargingPowerBAT[t] > 0
       /\ variable_electricalPowerTotal_BT5[t] = 0
  /\ \E t \in set_timeslots :
       /\ param_electricalDemand_In_W_BT5[t] = 0
       /\ variable_currentDisChargingPowerBAT[t] = 0

\* C13: for every timeslot and every combination of building counts, the
\* total RES generation and the total PV generation equal the sum over all
\* buildings of the buildings' own PV-generation variables
C13_TotalIsSumOfBuildings ==
  \A t \in 1..assigned_PV :
    LET sumOfBuildings ==
          SumSeq([k \in 1..(5 * MaxBuildings) |->
                    IF InScenario(AllBuildings[k])
                    THEN variable_pvGeneration[AllBuildings[k]][t]
                    ELSE 0])
    IN /\ variable_RESGenerationTotal[t] = sumOfBuildings
       /\ variable_PVGenerationTotal[t] = sumOfBuildings

\* the values the split of the surplus of timeslot t must take: the
\* positive part is the surplus when it is positive, the negative part its
\* opposite when it is negative
SurplusOf(t) == variable_RESGenerationTotal[t] - variable_electricalPowerTotal[t]
PositivePartOf(t) == [i \in 1..t |-> IF SurplusOf(t) > 0 THEN SurplusOf(t) ELSE 0]
NegativePartOf(t) == [i \in 1..t |-> IF SurplusOf(t) < 0 THEN 0 - SurplusOf(t) ELSE 0]

\* C14: for every timeslot of every assignment that satisfies the
\* constraints of the buildings, generation - load is at most
\* param_BigM_Surplus_Positive and load - generation at most
\* param_BigM_Surplus_Negative, and the two big-M constraints of the split of
\* the surplus are satisfied for a value of the indicator binary
C14_BigMCoversSurplus ==
  \A t \in 1..Len(variable_electricalPowerTotal) :
    /\ SurplusOf(t) <= param_BigM_Surplus_Positive(t)
    /\ 0 - SurplusOf(t) <= param_BigM_Surplus_Negative(t)
    /\ \E b \in Binary :
         LET B_ == [i \in 1..t |-> b] IN
         /\ Satisfied(surplusPowerPositiveRule(PositivePartOf(t), B_, t))
         /\ Satisfied(surplusPowerNegativeRule(NegativePartOf(t), B_, t))

\* a complete assignment with a timeslot in which the building draws its
\* maximal electrical power and the load exceeds the generation
C14_Witness ==
  /\ Len(variable_electricalPowerTotal) = numberOfTimeSlotsPerWeek
  /\ \E t \in set_timeslots :
       /\ SurplusOf(t) < 0
       /\ 0 - SurplusOf(t) + 1000 = param_BigM_Surplus_Negative(t)
  /\ \E t \in set_timeslots : SurplusOf(t) > 0

\* the maximum over the timeslots of |load - generation|
MaximumAbsoluteLoad ==
  LET loads == {Abs(variable_electricalPowerTotal[t] - variable_PVGenerationTotal[t]) :
                  t \in set_timeslots}
  IN  CHOOSE m \in loads : \A x \in loads : x <= m

\* C15 as stated: in every assignment that satisfies the constraints,
\* variable_objectiveMaximumLoad equals the maximum over the timeslots of
\* |load - generation|
C15_Original == Complete_All => variable_objectiveMaximumLoad = MaximumAbsoluteLoad

\* C15: in every assignment that satisfies the constraints,
\* variable_objectiveMaximumLoad is at least the maximum over the timeslots
\* of |load - generation|
C15_AtLeastMaximum == Complete_All => variable_objectiveMaximumLoad >= MaximumAbsoluteLoad

\* a complete assignment in which the variable is the maximum, taken in a
\* timeslot where the generation exceeds the load
C15_Witness ==
  /\ Complete_All
  /\ variable_objectiveMaximumLoad = MaximumAbsoluteLoad
  /\ \E t \in set_timeslots :
       variable_PVGenerationTotal[t] - variable_electricalPowerTotal[t]
         = variable_objectiveMaximumLoad
  /\ \A t \in set_timeslots :
       variable_electricalPowerTotal[t] - variable_PVGenerationTotal[t]
         < variable_objectiveMaximumLoad

\* C16: in every assignment that satisfies the constraints, in every
\* timeslot the temperature of the buffer storage, the usable volume of the
\* DHW tank, the energy levels of the EV and of the battery and their SOC
\* are within the bounds of their declarations
C16_StatesWithinBounds ==
  /\ \A t \in 1..Len(variable_temperatureBufferStorage) :
       /\ variable_temperatureBufferStorage[t] >= minimalBufferStorageTemperature
       /\ variable_temperatureBufferStorage[t] <= maximalBufferStorageTemperature
  /\ \A t \in 1..Len(variable_usableVolumeDHWTank) :
       /\ variable_usableVolumeDHWTank[t] >= minimumCapacityDHWTankOptimization
       /\ variable_usableVolumeDHWTank[t] <= maximumCapacityDHWTankOptimization
  /\ \A t \in 1..Len(variable_energyLevelEV) :
       /\ variable_energyLevelEV[t] >= 0
       /\ variable_energyLevelEV[t] <= capacityMaximal_EV
       /\ variable_SOC_EV[t] >= 0
       /\ variable_SOC_EV[t] <= 100
  /\ \A t \in 1..Len(variable_energyLevelBAT) :
       /\ variable_energyLevelBAT[t] >= 0
       /\ variable_energyLevelBAT[t] <= capacityMaximal_BAT
       /\ variable_SOC_BAT[t] >= 0
       /\ variable_SOC_BAT[t] <= 100

\* a complete assignment of a building with a heat pump in which the buffer
\* storage is at a bound of its temperature in some timeslot
C16_Witness ==
  /\ Complete
  /\ numberOfBuildings["BT2"] + numberOfBuildings["BT4"] >= 1
  /\ \E t \in set_timeslots :
       variable_temperatureBufferStorage[t]
         \in {minimalBufferStorageTemperature, maximalBufferStorageTemperature}

\* the bands around the initial values, for a value x of the state
InBufferBand(x) ==
  /\ x >= initialBufferStorageTemperature
            - endBufferStorageTemperatureAllowedDeviationFromInitalValue
  /\ x <= initialBufferStorageTemperature
            + endBufferStorageTemperatureAllowedDeviationFromInitalValue
InDHWBand(x) ==
  /\ x >= initialUsableVolumeDHWTank
            - endUsableVolumeDHWTankAllowedDeviationFromInitialValue
  /\ x <= initialUsableVolumeDHWTank
            + endUsableVolumeDHWTankAllowedDeviationFromInitialValue
InEVBand(x) ==
  /\ 100 * x >= (initialSOC_EV - endSOC_EVAllowedDeviationFromInitalValue)
                  * capacityMaximal_EV
  /\ 100 * x <= (initialSOC_EV + endSOC_EVAllowedDeviationFromInitalValue)
                  * capacityMaximal_EV
InBATBand(x) ==
  /\ 100 * x >= (initialSOC_BAT - endSOC_BATAllowedDeviationFromInitalValueLowerLimit)
                  * capacityMaximal_BAT
  /\ 100 * x <= (initialSOC_BAT + endSOC_BATAllowedDeviationFromInitalValueUpperLimit)
                  * capacityMaximal_BAT

\* C17: in every assignment that satisfies the constraints, the state of
\* the last timeslot is within the band around its initial value: the
\* temperature of the buffer storage, the usable volume of the DHW tank,
\* the energy level of the EV and the energy level of the battery
C17_LastStateWithinBand ==
  /\ Len(variable_temperatureBufferStorage) = numberOfTimeSlotsPerWeek
       => InBufferBand(variable_temperatureBufferStorage[numberOfTimeSlotsPerWeek])
  /\ (HasDHW /\ Len(variable_usableVolumeDHWTank) = numberOfTimeSlotsPerWeek)
       => InDHWBand(variable_usableVolumeDHWTank[numberOfTimeSlotsPerWeek])
  /\ Len(variable_energyLevelEV) = numberOfTimeSlotsPerWeek
       => InEVBand(variable_energyLevelEV[numberOfTimeSlotsPerWeek])
  /\ Len(variable_energyLevelBAT) = numberOfTimeSlotsPerWeek
       => InBATBand(variable_energyLevelBAT[numberOfTimeSlotsPerWeek])

\* a complete assignment of a building with an EV whose energy level is
\* outside the band in a timeslot before the last and inside it in the last
C17_Witness ==
  /\ Complete_BT3
  /\ InEVBand(variable_energyLevelEV[numberOfTimeSlotsPerWeek])
  /\ \E t \in 1..(numberOfTimeSlotsPerWeek - 1) : ~InEVBand(variable_energyLevelEV[t])

\* C18: when the PV-nominal generation is zero in every timeslot, the
\* positive part of the surplus is 0 in every timeslot of every assignment
\* that satisfies the constraints, and so is the surplus-energy objective
\* variable
C18_NoPVNoSurplus ==
  (\A t \in set_timeslots : param_pvGenerationNominal[t] = 0)
    => /\ \A t \in 1..assigned_All : variable_surplusPowerPositivePart[t] = 0
       /\ variable_objectiveSurplusEnergy = 0

\* a complete assignment of a scenario without PV generation
C18_Witness ==
  /\ Complete_All
  /\ \A t \in set_timeslots : param_pvGenerationNominal[t] = 0
  /\ \E t \in set_timeslots : variable_surplusPowerNegativePart[t] > 0

\* the start-limit constraints of timeslot t of the assignment: those on
\* the coefficient and the binaries of the space heating, of the DHW, and
\* the combined ones
StartLimitRules(t) ==
  { maximumNumberOfStarts_Individual_EQ1_Rule(
      variable_HPswitchedOff_Individual_SpaceHeating,
      variable_HPswitchedOff_HelpAssociatedBinary_SpaceHeating, t),
    maximumNumberOfStarts_Individual_EQ2_Rule(
      variable_HPswitchedOff_Individual_SpaceHeating,
      variable_HPswitchedOff_HelpAssociatedBinary_SpaceHeating, t),
    maximumNumberOfStarts_Individual_EQ2_2_Rule(
      variable_HPswitchedOff_Individual_SpaceHeating,
      variable_HPswitchedOff_HelpAssociatedBinary_SpaceHeating, t),
    maximumNumberOfStarts_Individual_EQ3_HelpAssociatedBinary_Rule(
      variable_HPswitchedOff_HelpAssociatedBinary_SpaceHeating,
      variable_heatGenerationCoefficient_SpaceHeating, t),
    maximumNumberOfStarts_Individual_EQ4_HelpAssociatedBinary_Rule(
      variable_HPswitchedOff_HelpAssociatedBinary_SpaceHeating,
      variable_heatGenerationCoefficient_SpaceHeating, t),
    maximumNumberOfStarts_Individual_EQ5_NumberOfStarts_Rule(
      variable_HPswitchedOff_Individual_SpaceHeating) }
  \cup
  ( IF HasDHW
    THEN { maximumNumberOfStarts_Individual_EQ1_Rule(
             variable_HPswitchedOff_Individual_DHW,
             variable_HPswitchedOff_HelpAssociatedBinary_DHW, t),
           maximumNumberOfStarts_Individual_EQ2_Rule(
             variable_HPswitchedOff_Individual_DHW,
             variable_HPswitchedOff_HelpAssociatedBinary_DHW, t),
           maximumNumberOfStarts_Individual_EQ2_2_Rule(
             variable_HPswitchedOff_Individual_DHW,
             variable_HPswitchedOff_HelpAssociatedBinary_DHW, t),
           maximumNumberOfStarts_Individual_EQ3_HelpAssociatedBinary_Rule(
             variable_HPswitchedOff_HelpAssociatedBinary_DHW,
             variable_heatGenerationCoefficient_DHW, t),
           maximumNumberOfStarts_Individual_EQ4_HelpAssociatedBinary_Rule(
             variable_HPswitchedOff_HelpAssociatedBinary_DHW,
             variable_heatGenerationCoefficient_DHW, t),
           maximumNumberOfStarts_Individual_EQ5_NumberOfStarts_Rule(
             variable_HPswitchedOff_Individual_DHW),
           maximumNumberOfStarts_Combined_EQ1_Rule(
             variable_HPswitchedOff_Combined,
             variable_HPswitchedOff_HelpAssociatedBinary_SpaceHeating,
             variable_HPswitchedOff_HelpAssociatedBinary_DHW, t),
           maximumNumberOfStarts_Combined_EQ2_Rule(
             variable_HPswitchedOff_Combined,
             variable_HPswitchedOff_HelpAssociatedBinary_SpaceHeating,
             variable_HPswitchedOff_HelpAssociatedBinary_DHW, t),
           maximumNumberOfStarts_Combined_EQ3_NumberOfStarts_Rule(
             variable_HPswitchedOff_Combined) }
    ELSE {} )

\* C19: with considerMaxiumNumberOfStartsHP_Individual and
\* considerMaximumNumberOfStartsHP_Combined both false no start-limit
\* constraint is generated for a BT1/BT2 building, and with
\* considerMaxiumNumberOfStartsHP_MFH_Individual false none is generated
\* for a BT4 building, whatever the other flags
C19_DisabledNotGenerated ==
  LET disabled ==
        IF buildingType = "BT4"
        THEN ~considerMaxiumNumberOfStartsHP_MFH_Individual
        ELSE /\ ~considerMaxiumNumberOfStartsHP_Individual
             /\ ~considerMaximumNumberOfStartsHP_Combined
  IN  disabled => \A t \in 1..assigned : \A r \in StartLimitRules(t) : ~Generated(r)

(***************************************************************************)
(* C20: when the solver terminated as infeasible, or with any termination  *)
(* condition that is neither optimal nor the time limit, the call has      *)
(* built no result frame from the variable values, has written no result   *)
(* file, and returns nine vectors that are all empty arrays.               *)
(***************************************************************************)
SolverFailed ==
  /\ solution # NotSolved
  /\ solution.termination_condition \notin {"optimal", "maxTimeLimit"}

ReturnedForProvenOptimum == returnValue(BuildingTypesInScenario)

C21_TimeLimitDistinguishable ==
  (solution.termination_condition = "maxTimeLimit" /\ returned.kind = "returned")
    => returned # ReturnedForProvenOptimum

(***************************************************************************)
(* C22: two concurrent calls share no state: the result directory of a     *)
(* call is the directory of no other call, every file in it was written by *)
(* that call and holds its results, and the files a call reads back are    *)
(* the ones it wrote.                                                      *)
(***************************************************************************)
C22_PrivateResults ==
  \A p \in Processes :
    calls[p].folderPath # NoFolder
      => /\ \A q \in Processes \ {p} : calls[q].folderPath # calls[p].folderPath
         /\ \A f \in files :
              f.path[1] = calls[p].folderPath => (f.writer = p /\ f.data = p)
         /\ calls[p].readFrom \subseteq {p}

(***************************************************************************)
(* C23: with the combined start limit enabled, in every complete           *)
(* assignment of a building with two sinks the number of timeslots t >= 2  *)
(* at which the heat pump serves a sink at t-1 and none at t is at most    *)
(* maximumNumberOfStarts_Combined; a hand-over from one sink to the other  *)
(* in consecutive timeslots is not such a timeslot.                        *)
(***************************************************************************)
\* the heat pump serves a sink at timeslot t
ServesASink(t) ==
  \/ variable_heatGenerationCoefficient_SpaceHeating[t] > 0
  \/ variable_heatGenerationCoefficient_DHW[t] > 0

CombinedSwitchOffs ==
  Cardinality({t \in 2..assigned : ServesASink(t - 1) /\ ~ServesASink(t)})

\* timeslots t >= 2 at which the sink served changes from t-1 to t
HandOvers ==
  Cardinality({t \in 2..assigned :
     \/ /\ variable_heatGenerationCoefficient_SpaceHeating[t - 1] > 0
        /\ variable_heatGenerationCoefficient_DHW[t] > 0
     \/ /\ variable_heatGenerationCoefficient_DHW[t - 1] > 0
        /\ variable_heatGenerationCoefficient_SpaceHeating[t] > 0})

C23_CombinedSwitchOffsLimited ==
  (HasDHW /\ considerMaximumNumberOfStartsHP_Combined /\ Complete)
    => CombinedSwitchOffs <= maximumNumberOfStarts_Combined

\* a complete assignment that uses the whole limit for switch-offs and has
\* a hand-over on top of them
C23_Witness ==
  /\ HasDHW
  /\ considerMaximumNumberOfStartsHP_Combined
  /\ Complete
  /\ CombinedSwitchOffs = maximumNumberOfStarts_Combined
  /\ HandOvers >= 1

(***************************************************************************)
(* C24: when a start limit of the building is enabled (individual or       *)
(* combined), the modulation coefficient of a sink is 0 or at least        *)
(* minimalModulationdDegree_HP percent in every timeslot, and the helper   *)
(* binary of the sink is 1 exactly when the coefficient is positive.       *)
(***************************************************************************)
StartLimitEnabled == considerIndividual \/ considerMaximumNumberOfStartsHP_Combined

HelperFollowsCoefficient(H_, C_) ==
  \A t \in 1..Len(C_) :
    /\ C_[t] = 0 \/ C_[t] >= minimalModulationdDegree_HP
    /\ H_[t] = 1 <=> C_[t] > 0

C24_CoefficientZeroOrModulated ==
  StartLimitEnabled =>
    /\ HelperFollowsCoefficient(variable_HPswitchedOff_HelpAssociatedBinary_SpaceHeating,
                                variable_heatGenerationCoefficient_SpaceHeating)
    /\ HasDHW =>
         HelperFollowsCoefficient(variable_HPswitchedOff_HelpAssociatedBinary_DHW,
                                  variable_heatGenerationCoefficient_DHW)

\* a complete assignment under a start limit in which each sink runs in
\* some timeslot and rests in another
C24_Witness ==
  /\ StartLimitEnabled
  /\ HasDHW
  /\ Complete
  /\ \E t \in 1..assigned : variable_HPswitchedOff_HelpAssociatedBinary_SpaceHeating[t] = 1
  /\ \E t \in 1..assigned : variable_HPswitchedOff_HelpAssociatedBinary_SpaceHeating[t] = 0
  /\ \E t \in 1..assigned : variable_HPswitchedOff_HelpAssociatedBinary_DHW[t] = 1
  /\ \E t \in 1..assigned : variable_HPswitchedOff_HelpAssociatedBinary_DHW[t] = 0

(***************************************************************************)
(* C25: in every solution and for every timeslot t the costs and the       *)
(* revenue, defined with the indicator binary, are the negative and the    *)
(* positive part of the surplus times the length of the timeslot and the   *)
(* price (the feed-in tariff), also where the surplus is 0 and the         *)
(* indicator is free.  Money is in 1/3600000 cent.                         *)
(***************************************************************************)
C25_MoneyFollowsParts ==
  \A t \in 1..assigned_All :
    /\ variable_costsPerTimeSlot[t]
         = variable_surplusPowerNegativePart[t] * timeResolution_InMinutes * 60
             * param_electricityPrice_In_Cents[t]
    /\ variable_revenuePerTimeSlot[t]
         = variable_surplusPowerPositivePart[t] * timeResolution_InMinutes * 60
             * revenueForFeedingBackElecticityIntoTheGrid_CentsPerkWh

\* a complete assignment with a timeslot of surplus 0, a timeslot with
\* costs and a timeslot with revenue
C25_Witness ==
  /\ Complete_All
  /\ \E t \in set_timeslots : variable_surplusPowerTotal[t] = 0
  /\ \E t \in set_timeslots : variable_costsPerTimeSlot[t] > 0
  /\ \E t \in set_timeslots : variable_revenuePerTimeSlot[t] > 0

(***************************************************************************)
(* C30: whenever exactly one of the mode flags optimization_1Objective,    *)
(* optimization_2Objective, optimization_3Objectives is true, the built    *)
(* objective is an expression returned by objectiveRule_combined_general,  *)
(* whatever the three goal flags are.                                      *)
(***************************************************************************)
ExactlyOneMode ==
  \/ optimization_1Objective /\ ~optimization_2Objective /\ ~optimization_3Objectives
  \/ ~optimization_1Objective /\ optimization_2Objective /\ ~optimization_3Objectives
  \/ ~optimization_1Objective /\ ~optimization_2Objective /\ optimization_3Objectives

C30_AlwaysAnExpression ==
  (ExactlyOneMode /\ objective_combined_general # NotBuilt)
    => objective_combined_general.kind = "expression"

(***************************************************************************)
(* C26: in the single-timeslot loops of BT1, BT2 and BT4, with a           *)
(* controller that returns the counters it was given, after every timeslot *)
(* help_countNumberOfStartHeatPump_Heating_Combined is the number of       *)
(* timeslots so far at which heatPumpIsRunning changed from 0 (0 before    *)
(* the first slot) to 1, for every sequence of corrected actions.          *)
(***************************************************************************)
\* heatPumpIsRunning after timeslot j (counted from 1) of the loop
RunningAfter(j) ==
  \/ IsRunning(outputVector_heatGenerationCoefficientSpaceHeating[j])
  \/ /\ j <= Len(outputVector_heatGenerationCoefficientDHW)
     /\ IsRunning(outputVector_heatGenerationCoefficientDHW[j])

ChangesToRunning ==
  Cardinality({j \in 1..Len(outputVector_heatGenerationCoefficientSpaceHeating) :
                 RunningAfter(j) /\ (j = 1 \/ ~RunningAfter(j - 1))})

HeatPumpLoop ==
  numberOfBuildings["BT1"] = 1 \/ numberOfBuildings["BT2"] = 1 \/ numberOfBuildings["BT4"] = 1

C26_CounterCountsChangesToRunning ==
  HeatPumpLoop =>
    help_countNumberOfStartHeatPump_Heating_Combined = ChangesToRunning

(***************************************************************************)
(* C27: in every single-timeslot loop (BT1 to BT5) the exogenous features  *)
(* passed to the trained model at timeslot k are the values of timeslot k. *)
(***************************************************************************)
C27_FeaturesOfCurrentTimeslot ==
  iteration >= 1 =>
    \A n \in DOMAIN vector_input_features :
      vector_input_features[n] = ValuesOfTimeslot(state_indexCurrentTimeslot)[n]

(***************************************************************************)
(* C29: in the BT4 loop the price distribution is rebuilt exactly at the   *)
(* timeslots k with k mod (1440 / timeResolution) = 0, and at every        *)
(* timeslot k the price whose ECDF value is taken (label k + 1) is one of  *)
(* the prices of the window the distribution in use was built from.        *)
(***************************************************************************)
\* the distribution was rebuilt in the last timeslot: its counter was reset
RebuiltInTimeslot == helpCounterTimeSlotsForUpdatingEDFPrices = 0

C29_PriceInWindowOfECDF ==
  (numberOfBuildings["BT4"] = 1 /\ iteration >= 1) =>
    /\ RebuiltInTimeslot <=> state_indexCurrentTimeslot % updatingFrequencyEDFPrices = 0
    /\ state_indexCurrentTimeslot + 1 \in ecdf_prices

(***************************************************************************)
(* C28: the signed battery variable encodes a mutually exclusive charging  *)
(* and discharging power without loss.  The powers read from a value x are *)
(* (x, 0) if x >= 0 and (0, -x) otherwise, so at most one of them is not 0 *)
(* and charging - discharging = x; and for every training pair (c, d) with *)
(* c, d >= 0 and at most one of them not 0, the powers read from the       *)
(* combined variable of the training (c if c >= d, else -d) are (c, d).    *)
(***************************************************************************)
\* the powers are (x, 0) for x >= 0 and (0, -x) otherwise
Decoded(x, chargingPowerBAT, disChargingPowerBAT) ==
  /\ chargingPowerBAT = (IF x >= 0 THEN x ELSE 0)
  /\ disChargingPowerBAT = (IF x >= 0 THEN 0 ELSE 0 - x)
  /\ chargingPowerBAT = 0 \/ disChargingPowerBAT = 0
  /\ chargingPowerBAT - disChargingPowerBAT = x

MutuallyExclusive(c, d) == c >= 0 /\ d >= 0 /\ (c = 0 \/ d = 0)

C28_CombinedVariableLossless ==
  /\ Decoded(resultinValueMLMethod, action_chargingPowerBAT_NotOverruled,
             action_disChargingPowerBAT_NotOverruled)
  /\ \A i \in 1..Len(outputVector_chargingBAT) :
       Decoded(outputVector_chargingBATCombinedVariable[i], outputVector_chargingBAT[i],
               outputVector_disChargingBAT[i])
  /\ \A i \in 1..Len(array_chargingPowerBatCombinedVariable) :
       MutuallyExclusive(array_ChargingPowerBat[i], array_disChargingPowerBat[i]) =>
         actionsOfCombinedVariable(array_chargingPowerBatCombinedVariable[i]) =
           [chargingPowerBAT |-> array_ChargingPowerBat[i],
            disChargingPowerBAT |-> array_disChargingPowerBat[i]]

\* a discharging label was encoded, and a negative value was decoded in the
\* slot and in the week
C28_Witness ==
  /\ \E i \in 1..Len(array_chargingPowerBatCombinedVariable) :
       array_ChargingPowerBat[i] = 0 /\ array_disChargingPowerBat[i] > 0
  /\ \E i \in 1..Len(array_chargingPowerBatCombinedVariable) :
       array_ChargingPowerBat[i] > 0 /\ array_disChargingPowerBat[i] = 0
  /\ resultinValueMLMethod < 0
  /\ \E i \in 1..Len(outputVector_disChargingBAT) :
       outputVector_chargingBATCombinedVariable[i] < 0

====
